---- MODULE Spec2Model ----
(***************************************************************************)
(* Portfolio construction and optimisation engine of opensourcecarteira.   *)
(*                                                                         *)
(* The module models, from src/portfolio_performance.py, src/app.py and    *)
(* src/data_handling.py:                                                   *)
(*   - allocate_portfolio_integer_shares  (specification SpecAlloc)        *)
(*   - portfolio_performance, optimize_portfolio (maximum Sharpe),         *)
(*     risk_parity_optimization, calculate_optimal_contribution            *)
(*                                         (specification SpecOptimizer)   *)
(*   - optimize_portfolio with sector and style bands                      *)
(*                                         (specification SpecMultiFactor) *)
(*   - optimize_weights and its use by main                                *)
(*                                         (specification SpecCalibration) *)
(*   - the asset count check and the anomaly loop of main                  *)
(*                                         (specification SpecMain)        *)
(*   - detect_price_anomalies, calculate_rsi and the two anomaly rates     *)
(*                                         (specification SpecAnomaly)     *)
(*   - calculate_returns                   (specification SpecReturns)     *)
(*   - the fetch loop, dropna and Score of main                            *)
(*                                         (specification SpecScreen)      *)
(*   - adjust_weights_for_anomalies        (specification SpecAdjust)      *)
(*   - the selection of the top assets     (specification SpecRank)        *)
(*   - the module global risk_free_rate and generate_random_portfolios     *)
(*                                         (specification SpecRate)        *)
(*   - repeated calls of optimize_weights                                  *)
(*                                    (specification SpecRecalibration)    *)
(*   - calculate_adjusted_score            (specification SpecScore)       *)
(*   - the two definitions of optimize_portfolio and the call in main      *)
(*                                         (specification SpecFlow)        *)
(*   - risk_free_rate on the way to plot_efficient_frontier                *)
(*                                         (specification SpecRateFlow)    *)
(*   - buy_stock, sell_stock, get_portfolio_performance                    *)
(*                                         (specification SpecLedger)      *)
(*   - the retrying fetchers               (specification SpecFetch)       *)
(*   - data_handling's historical prices   (specification SpecHistory)     *)
(*   - the contribution loops of calculate_optimal_contribution            *)
(*                                    (specification SpecContributionLive) *)
(*                                                                         *)
(* scipy.optimize.minimize and the ARIMA fit are libraries: the model      *)
(* draws their outcome from the outcomes they can produce.                 *)
(*                                                                         *)
(* Money amounts and share counts are integers; a weight is an exact       *)
(* rational [num, den] with den > 0, so that budget * weight / price is    *)
(* computed without rounding error.                                        *)
(***************************************************************************)
EXTENDS Integers, Sequences, FiniteSets, TLC

VARIABLES
    \* ---- allocate_portfolio_integer_shares -------------------------------
    invest_value,      \* the budget argument
    prices,            \* prices[t]: price of ticker t (the Series `prices`)
    prices_index,      \* prices.index: the tickers in input order
    weights,           \* weights[k]: weight zipped with prices_index[k]
    sorted_assets,     \* the sorted list of <<weight, ticker>> pairs
    allocation,        \* allocation[t]: shares of t, 0 = key absent
    remaining_value,   \* cash not yet spent
    alloc_pc,          \* "first" | "second" | "done" | "idle"
    alloc_i,           \* position of the running for loop in sorted_assets
    \* ---- the optimizer functions and portfolio_performance ---------------
    returns,           \* the returns panel: a sequence of rows (periods)
    num_assets,        \* returns.shape[1]
    risk_free_rate,    \* a rational [num, den]
    opt_mode,          \* the function called, "none" before the call
    opt_args,          \* the weight-vector argument of the call, if any
    opt_result,        \* the OptimizeResult of minimize: [success, x]
    opt_ret,           \* what the function hands to its caller
    opt_pc,            \* "call" | "done" | "idle"
    \* ---- optimize_portfolio with sector and style constraints ------------
    sector_constraints, \* dict, in insertion order: <<[key, lo, hi], ...>>
    style_constraints,  \* dict, in insertion order: <<[key, lo, hi], ...>>
    sector_data,       \* sector_data[a]: sector of asset a
    fundamental_data,  \* fundamental_data[a]: [pb, roe, dy] of asset a
    asset_index,       \* labels of the two frames: "positions" | "tickers"
    cov_matrix,        \* the Ledoit-Wolf covariance: "unset" | "zero" | "positive"
    constraints,       \* the band closures appended so far
    min_weight,        \* the loop variable: <<>> unbound, <<v>> bound to v
    max_weight,        \* the loop variable: <<>> unbound, <<v>> bound to v
    evaluated,         \* what each band closure used when the solver called it
    mf_k,              \* position of the running for loop
    mf_pc,             \* "prepare" | "sector_loop" | "style_loop" | "solve" | "done"
    \* ---- optimize_weights and its use by main ----------------------------
    ativos_df,         \* the asset table: <<[terms, cumulative_return], ...>>
    calib_result,      \* the OptimizeResult of minimize: [success, x]
    optimized_weights, \* main: what optimize_weights returned
    scoring_weights,   \* main: the weights handed to calculate_adjusted_score
    calib_pc,          \* "calibrate" | "scored" | "exception" | "idle"
    \* ---- main: detection of anomalies, one ticker after the other --------
    tickers_raw,       \* number of tickers of the filtered asset table
    series_length,     \* length of the price series of the ticker last handled
    price_anomaly,     \* price_anomaly[k]: flagged fraction stored for ticker k
    main_i,            \* position of the running for loop
    main_pc,           \* "check_assets" | "anomaly_loop" | "calibrate" |
                       \* "returned" | "exception" | "idle"
    \* ---- one ticker of the anomaly loop, on its price series -------------
    stock_series,      \* stock_data_raw[ticker]: the prices of the ticker
    rsi_window,        \* the window argument of calculate_rsi
    price_flags,       \* price_anomalies: the series of detect_price_anomalies
    rsi,               \* the series of calculate_rsi
    rsi_anomaly,       \* main: (rsi > 70).mean() + (rsi < 30).mean()
    rsi_anomalies,     \* main: ((rsi > 70) | (rsi < 30)).mean()
    anomaly_pc,        \* "ticker" | "stored" | "exception" | "idle"
    \* ---- calculate_returns ------------------------------------------------
    price_panel,       \* the prices argument: rows (dates) of cells per asset
    panel_columns,     \* number of columns of the prices argument
    fill_method,       \* what pct_change does with a missing price
    returns_frame,     \* what calculate_returns hands to its caller
    returns_pc,        \* "call" | "done" | "idle"
    \* ---- main: the fundamentals of the assets and their filter ------------
    ticker_count,      \* len(ativos_df['Ticker']) when the button is pressed
    fetch_i,           \* position of the for loop over the tickers
    fundamental_df,    \* the merged asset table, one record per asset
    screened_df,       \* ativos_df after dropna(subset=[...])
    screen_pc,         \* "fetch" | "filter" | "score" | "returned" |
                       \* "exception" | "idle"
    \* ---- adjust_weights_for_anomalies --------------------------------------
    optimal_weights,   \* the weights argument
    anomaly_scores,    \* anomaly_scores[i], in steps of 1 / ScoreSteps
    adjusted_weights,  \* what the function returns
    adjust_pc,         \* "call" | "done" | "idle"
    \* ---- main: the selection of the top assets ------------------------------
    scored_df,         \* ativos_df with Adjusted_Score and Score, row by row
    top_ativos,        \* the rows of ativos_df.nlargest(10, 'Adjusted_Score')
    rank_pc,           \* "rank" | "ranked" | "idle"
    \* ---- the module global risk_free_rate and its readers -----------------
    global_risk_free_rate, \* the module global: Unbound or a rational
    sharpe_calls,      \* the calls of generate_random_portfolios made so far
    rate_pc,           \* "run" | "idle"
    \* ---- repeated calls of optimize_weights -------------------------------
    recal_df,          \* the asset table handed to every call
    slsqp_memo,        \* what the solver returned for each problem it was given
    recal_runs,        \* the calls made so far: the table and the outcome
    last_weights,      \* main's optimized_weights after the latest call
    recal_pc,          \* "run" | "idle"
    \* ---- calculate_adjusted_score ------------------------------------------
    score_row,         \* the row of ativos_df handed to the function
    score_weights,     \* optimized_weights
    adjusted_base_score,\* base_score * (1 + quality_factor * 0.1)
    penalty_factor,    \* 1 - 0.05 * anomaly_penalty
    final_score,       \* the value returned
    score_pc,          \* "call" | "done" | "idle"
    \* ---- the module namespace and main's optimization step -----------------
    bound_optimize_portfolio,\* what the name optimize_portfolio is bound to
    flow_returns,      \* main: returns = calculate_returns(stock_data)
    flow_error,        \* the exception caught by main's except clause, or none
    flow_pc,           \* "def_132" | "def_669" | "check_returns" | "optimize" | ...
    \* ---- the main flows up to plot_efficient_frontier ----------------------
    application,       \* "portfolio_performance" | "app": the file whose main runs
    module_risk_free_rate,\* the name risk_free_rate in that module
    plot_returns,      \* the returns panel handed to plot_efficient_frontier
    plot_outcome,      \* what the call of plot_efficient_frontier gave
    rate_flow_pc,      \* "before_optimize" | "plot" | "done" | "idle"
    \* ---- buy_stock, sell_stock and get_portfolio_performance ---------------
    collection,        \* the transactions collection, in insertion order
    ledger_df,         \* get_portfolio_performance: df, the rows sorted by Date
    portfolio,         \* portfolio[ticker]: quantity held
    invested_value,    \* invested_value[ticker]: a rational
    sell_ratio,        \* the sell_ratio of the latest SELL row
    ledger_i,          \* position of the for loop in df
    ledger_pc,         \* "record" | "replay" | "done" | "exception" | "idle"
    \* ---- the retrying fetchers ---------------------------------------------
    fetcher,           \* which function runs
    max_retries,       \* its argument max_retries
    attempt,           \* the loop variable of for attempt in range(max_retries)
    fetch_log,         \* the exception of every failed attempt so far
    sleeps,            \* the arguments of the calls of time.sleep so far
    fetch_ret,         \* what the function returned or raised
    fetch_pc,          \* "attempt" | "done" | "idle"
    \* ---- data_handling: the historical prices collection -------------------
    prices_collection, \* prices_collection[ticker]: the dates of its records, as inserted
    history_calls,     \* number of calls made so far
    last_call,         \* the latest call: its arguments, what it did and returned
    history_pc,        \* "serve" | "idle"
    \* ---- calculate_optimal_contribution: the contribution loops ------------
    contribution_amount,\* the argument
    current_prices,    \* current_prices[k]: price of the k-th ticker
    contribution_weights,\* optimal_weights = result.x, or a vector of NaN
    final_contribution,\* final_contribution[k]: amount of the k-th ticker, keys 1..m
    remaining_amount,  \* cash not yet distributed
    contribution_i,    \* position of the running for loop
    contribution_pc    \* "first" | "while" | "for" | "done" | "exception" | "idle"

allocVars == <<invest_value, prices, prices_index, weights, sorted_assets,
               allocation, remaining_value, alloc_pc, alloc_i>>

optVars == <<returns, num_assets, risk_free_rate, opt_mode, opt_args,
             opt_result, opt_ret, opt_pc>>

mfVars == <<sector_constraints, style_constraints, sector_data,
            fundamental_data, asset_index, cov_matrix, constraints, min_weight,
            max_weight, evaluated, mf_k, mf_pc>>

calibVars == <<ativos_df, calib_result, optimized_weights, scoring_weights,
               calib_pc>>

mainVars == <<tickers_raw, series_length, price_anomaly, main_i, main_pc>>

anomalyVars == <<stock_series, rsi_window, price_flags, rsi, rsi_anomaly,
                 rsi_anomalies, anomaly_pc>>

returnsVars == <<price_panel, panel_columns, fill_method, returns_frame,
                 returns_pc>>

screenVars == <<ticker_count, fetch_i, fundamental_df, screened_df, screen_pc>>

adjustVars == <<optimal_weights, anomaly_scores, adjusted_weights, adjust_pc>>

rankVars == <<scored_df, top_ativos, rank_pc>>

rateVars == <<global_risk_free_rate, sharpe_calls, rate_pc>>

recalVars == <<recal_df, slsqp_memo, recal_runs, last_weights, recal_pc>>

scoreVars == <<score_row, score_weights, adjusted_base_score,
               penalty_factor, final_score, score_pc>>

flowVars == <<bound_optimize_portfolio, flow_returns, flow_error, flow_pc>>

rateFlowVars == <<application, module_risk_free_rate, plot_returns,
                  plot_outcome, rate_flow_pc>>

ledgerVars == <<collection, ledger_df, portfolio, invested_value, sell_ratio,
                ledger_i, ledger_pc>>

fetchVars == <<fetcher, max_retries, attempt, fetch_log, sleeps, fetch_ret,
               fetch_pc>>

historyVars == <<prices_collection, history_calls, last_call, history_pc>>

contributionVars == <<contribution_amount, current_prices,
                      contribution_weights, final_contribution,
                      remaining_amount, contribution_i, contribution_pc>>

vars == <<allocVars, optVars, mfVars, calibVars, mainVars, anomalyVars,
          returnsVars, screenVars, adjustVars, rankVars, rateVars,
          recalVars, scoreVars, flowVars, rateFlowVars, ledgerVars,
          fetchVars, historyVars, contributionVars>>
notAlloc == <<optVars, mfVars, calibVars, mainVars, anomalyVars,
              returnsVars, screenVars, adjustVars, rankVars, rateVars,
              recalVars, scoreVars, flowVars, rateFlowVars, ledgerVars,
              fetchVars, historyVars, contributionVars>>
notOpt == <<allocVars, mfVars, calibVars, mainVars, anomalyVars,
            returnsVars, screenVars, adjustVars, rankVars, rateVars,
            recalVars, scoreVars, flowVars, rateFlowVars, ledgerVars,
            fetchVars, historyVars, contributionVars>>
notMultiFactor == <<allocVars, calibVars, mainVars, anomalyVars,
                    returnsVars, screenVars, adjustVars, rankVars, rateVars,
                    recalVars, scoreVars, flowVars, rateFlowVars,
                    ledgerVars, fetchVars, historyVars, contributionVars>>
notCalib == <<allocVars, optVars, mfVars, mainVars, anomalyVars,
              returnsVars, screenVars, adjustVars, rankVars, rateVars,
              recalVars, scoreVars, flowVars, rateFlowVars, ledgerVars,
              fetchVars, historyVars, contributionVars>>
notMain == <<allocVars, optVars, mfVars, calibVars, anomalyVars,
             returnsVars, screenVars, adjustVars, rankVars, rateVars,
             recalVars, scoreVars, flowVars, rateFlowVars, ledgerVars,
             fetchVars, historyVars, contributionVars>>
notAnomaly == <<allocVars, optVars, mfVars, calibVars, mainVars,
                returnsVars, screenVars, adjustVars, rankVars, rateVars,
                recalVars, scoreVars, flowVars, rateFlowVars, ledgerVars,
                fetchVars, historyVars, contributionVars>>
notReturns == <<allocVars, optVars, mfVars, calibVars, mainVars,
                anomalyVars, screenVars, adjustVars, rankVars, rateVars,
                recalVars, scoreVars, flowVars, rateFlowVars, ledgerVars,
                fetchVars, historyVars, contributionVars>>
notScreen == <<allocVars, optVars, mfVars, calibVars, mainVars, anomalyVars,
               returnsVars, adjustVars, rankVars, rateVars, recalVars,
               scoreVars, flowVars, rateFlowVars, ledgerVars, fetchVars,
               historyVars, contributionVars>>
notAdjust == <<allocVars, optVars, mfVars, calibVars, mainVars, anomalyVars,
               returnsVars, screenVars, rankVars, rateVars, recalVars,
               scoreVars, flowVars, rateFlowVars, ledgerVars, fetchVars,
               historyVars, contributionVars>>
notRank == <<allocVars, optVars, mfVars, calibVars, mainVars, anomalyVars,
             returnsVars, screenVars, adjustVars, rateVars, recalVars,
             scoreVars, flowVars, rateFlowVars, ledgerVars, fetchVars,
             historyVars, contributionVars>>
notRate == <<allocVars, optVars, mfVars, calibVars, mainVars, anomalyVars,
             returnsVars, screenVars, adjustVars, rankVars, recalVars,
             scoreVars, flowVars, rateFlowVars, ledgerVars, fetchVars,
             historyVars, contributionVars>>
notRecal == <<allocVars, optVars, mfVars, calibVars, mainVars, anomalyVars,
              returnsVars, screenVars, adjustVars, rankVars, rateVars,
              scoreVars, flowVars, rateFlowVars, ledgerVars, fetchVars,
              historyVars, contributionVars>>
notScore == <<allocVars, optVars, mfVars, calibVars, mainVars, anomalyVars,
              returnsVars, screenVars, adjustVars, rankVars, rateVars,
              recalVars, flowVars, rateFlowVars, ledgerVars, fetchVars,
              historyVars, contributionVars>>
notFlow == <<allocVars, optVars, mfVars, calibVars, mainVars, anomalyVars,
             returnsVars, screenVars, adjustVars, rankVars, rateVars,
             recalVars, scoreVars, rateFlowVars, ledgerVars, fetchVars,
             historyVars, contributionVars>>
notRateFlow == <<allocVars, optVars, mfVars, calibVars, mainVars,
                 anomalyVars, returnsVars, screenVars, adjustVars, rankVars,
                 rateVars, recalVars, scoreVars, flowVars, ledgerVars,
                 fetchVars, historyVars, contributionVars>>
notLedger == <<allocVars, optVars, mfVars, calibVars, mainVars, anomalyVars,
               returnsVars, screenVars, adjustVars, rankVars, rateVars,
               recalVars, scoreVars, flowVars, rateFlowVars, fetchVars,
               historyVars, contributionVars>>
notFetch == <<allocVars, optVars, mfVars, calibVars, mainVars, anomalyVars,
              returnsVars, screenVars, adjustVars, rankVars, rateVars,
              recalVars, scoreVars, flowVars, rateFlowVars, ledgerVars,
              historyVars, contributionVars>>
notHistory == <<allocVars, optVars, mfVars, calibVars, mainVars,
                anomalyVars, returnsVars, screenVars, adjustVars, rankVars,
                rateVars, recalVars, scoreVars, flowVars, rateFlowVars,
                ledgerVars, fetchVars, contributionVars>>
notContribution == <<allocVars, optVars, mfVars, calibVars, mainVars,
                     anomalyVars, returnsVars, screenVars, adjustVars,
                     rankVars, rateVars, recalVars, scoreVars, flowVars,
                     rateFlowVars, ledgerVars, fetchVars, historyVars>>
\* what a step of one function leaves alone: the state of the other ones

----------------------------------------------------------------------------
(* Bounds of the model                                                      *)

MaxAssets == 2
MaxBudget == 6
MaxPrice == 3
MaxPeriods == 2
WeightSteps == 2
MaxSeries == 3

\* 252 trading days per year
PeriodsPerYear == 252

\* periodic returns of one asset in one period
ReturnValues == {-1, 0, 1}

\* numbers of assets of the optimizer universes
UniverseSizes == {1, 2}

MaxCalibAssets == 3

\* the 7 weights of the composite score
NumFactors == 7

\* ativos_df.nlargest(10, 'Adjusted_Score')
TopN == 10

\* most calls of generate_random_portfolios in one process
MaxCalls == 2

\* most calls of optimize_weights in one process
MaxRuns == 2

\* main needs at least 10 assets with complete data
MinAssets == 10

\* anomaly scores are multiples of 1 / ScoreSteps
ScoreSteps == 4

\* longest price series handed to calculate_rsi
MaxRsiSeries == 5

\* calculate_rsi(prices, window=14)
RsiWindow == 14

\* most transactions recorded before the portfolio is displayed
MaxTransactions == 2

\* largest max_retries handed to a fetcher (the default is 3)
MaxRetries == 3

\* most calls of the historical price functions in one run
MaxHistoryCalls == 3

\* most entries of sector_constraints and style_constraints together
MaxBands == 2

\* 0 and the 0.1 that main sets
RiskFreeRates == {[nan |-> FALSE, num |-> 0, den |-> 1],
                  [nan |-> FALSE, num |-> 1, den |-> 10]}

\* numerators (over 10) of the weights drawn for the allocator
WeightNumerators == {-1, 0, 4, 6, 10}

----------------------------------------------------------------------------
(* Generic helpers                                                          *)

RECURSIVE SumSeq(_)
SumSeq(s) == IF s = <<>> THEN 0 ELSE Head(s) + SumSeq(Tail(s))

RECURSIVE SumOver(_, _)
SumOver(f, S) ==
    IF S = {} THEN 0
    ELSE LET e == CHOOSE e \in S : TRUE IN f[e] + SumOver(f, S \ {e})

Range(s) == {s[k] : k \in DOMAIN s}

Perms(n) == {p \in [1..n -> 1..n] : \A a, b \in 1..n : a # b => p[a] # p[b]}

\* Python int(a / b) for b > 0: truncation toward zero
PyInt(a, b) == IF a >= 0 THEN a \div b ELSE -((-a) \div b)

Weight(n, d) == [num |-> n, den |-> d]

----------------------------------------------------------------------------
(* allocate_portfolio_integer_shares                                        *)

\* tuple comparison (weight, ticker) > (weight, ticker) of Python's sorted
PairGreater(a, b) ==
    \/ a[1].num * b[1].den > b[1].num * a[1].den
    \/ /\ a[1].num * b[1].den = b[1].num * a[1].den
       /\ a[2] > b[2]

RECURSIVE SortDescending(_)
SortDescending(S) ==
    IF S = {} THEN <<>>
    ELSE LET top == CHOOSE a \in S : \A b \in S \ {a} : PairGreater(a, b)
         IN <<top>> \o SortDescending(S \ {top})

\* sorted(zip(weights, prices.index), reverse=True)
SortedAssets(w, idx) == SortDescending({<<w[k], idx[k]>> : k \in DOMAIN idx})

\* shares = int(invest_value * weight / price)
TargetShares(budget, weight, price) ==
    PyInt(budget * weight.num, weight.den * price)

FirstPassAcceptsNoBudgetCheck(shares, price, remaining) == shares > 0

FirstPassAcceptsStrict(shares, price, remaining) ==
    shares > 0 /\ price * shares < remaining

\* if shares > 0 and price * shares <= remaining_value
FirstPassAccepts(shares, price, remaining) ==
    shares > 0 /\ price * shares <= remaining

SecondPassFitsStrict(price, remaining) == price < remaining

\* if price <= remaining_value
SecondPassFits(price, remaining) == price <= remaining

\* one more share for an asset whose price fits
AdditionalSharesOneByOne(remaining, price) == 1

\* additional_shares = int(remaining_value / price)
AdditionalShares(remaining, price) == PyInt(remaining, price)

\* budget 10000, prices 3000 and 4000, weights 0.6 and 0.4
AllocScenario ==
    [invest_value |-> 10000, prices_index |-> <<1, 2>>,
     prices |-> <<3000, 4000>>, weights |-> <<Weight(6, 10), Weight(4, 10)>>]

\* entry of the function: allocation = {}, remaining_value = invest_value,
\* sorted_assets computed
AllocStart(inp) ==
    /\ invest_value = inp.invest_value
    /\ prices_index = inp.prices_index
    /\ prices = inp.prices
    /\ weights = inp.weights
    /\ sorted_assets = SortedAssets(inp.weights, inp.prices_index)
    /\ allocation = [t \in Range(inp.prices_index) |-> 0]
    /\ remaining_value = inp.invest_value
    /\ alloc_pc = "first"
    /\ alloc_i = 1

AllocInit ==
    \/ \E n \in 1..MaxAssets :
         \E b \in 1..MaxBudget, idx \in Perms(n), p \in [1..n -> 1..MaxPrice],
            w \in [1..n -> {Weight(k, 10) : k \in WeightNumerators}] :
            AllocStart([invest_value |-> b, prices_index |-> idx,
                        prices |-> p, weights |-> w])
    \/ AllocStart(AllocScenario)

\* one iteration of the first for loop
AllocFirstPass ==
    /\ alloc_pc = "first"
    /\ LET weight == sorted_assets[alloc_i][1]
           ticker == sorted_assets[alloc_i][2]
           price == prices[ticker]
           shares == TargetShares(invest_value, weight, price)
       IN IF FirstPassAccepts(shares, price, remaining_value)
          THEN /\ allocation' = [allocation EXCEPT ![ticker] = shares]
               /\ remaining_value' = remaining_value - price * shares
          ELSE UNCHANGED <<allocation, remaining_value>>
    /\ IF alloc_i = Len(sorted_assets)
       THEN alloc_pc' = "second" /\ alloc_i' = 1
       ELSE alloc_pc' = "first" /\ alloc_i' = alloc_i + 1
    /\ UNCHANGED <<invest_value, prices, prices_index, weights, sorted_assets>>
    /\ UNCHANGED notAlloc

\* one iteration of the second for loop; after the last one the function returns
AllocSecondPass ==
    /\ alloc_pc = "second"
    /\ LET ticker == sorted_assets[alloc_i][2]
           price == prices[ticker]
           additional_shares == AdditionalShares(remaining_value, price)
       IN IF SecondPassFits(price, remaining_value) /\ additional_shares > 0
          THEN /\ allocation' =
                     [allocation EXCEPT ![ticker] = @ + additional_shares]
               /\ remaining_value' = remaining_value - price * additional_shares
          ELSE UNCHANGED <<allocation, remaining_value>>
    /\ IF alloc_i = Len(sorted_assets)
       THEN alloc_pc' = "done" /\ alloc_i' = 1
       ELSE alloc_pc' = "second" /\ alloc_i' = alloc_i + 1
    /\ UNCHANGED <<invest_value, prices, prices_index, weights, sorted_assets>>
    /\ UNCHANGED notAlloc

AllocNext == AllocFirstPass \/ AllocSecondPass

AllocIdle ==
    /\ invest_value = 0
    /\ prices = <<>>
    /\ prices_index = <<>>
    /\ weights = <<>>
    /\ sorted_assets = <<>>
    /\ allocation = <<>>
    /\ remaining_value = 0
    /\ alloc_pc = "idle"
    /\ alloc_i = 0

----------------------------------------------------------------------------
(* Numbers of the optimizer model                                           *)
(*                                                                          *)
(* A scalar is [nan, num, den] with den > 0; a weight vector is             *)
(* [nan, num, den]: component i is num[i] / den, or every component is NaN. *)
(* None is the Python None.                                                 *)

Scalar(n, d) == [nan |-> FALSE, num |-> n, den |-> d]
NaN == [nan |-> TRUE, num |-> 0, den |-> 1]

Vector(nums, d) == [nan |-> FALSE, num |-> nums, den |-> d]
NaNVector(n) == [nan |-> TRUE, num |-> [i \in 1..n |-> 0], den |-> 1]
None == [nan |-> TRUE, num |-> <<>>, den |-> 0]

\* num_assets * [1. / num_assets]
EqualWeights(n) == Vector([i \in 1..n |-> 1], n)

\* the weight vectors of the grid with step 1 / WeightSteps
GridVectors(n) == {Vector(v, WeightSteps) : v \in [1..n -> 0..WeightSteps]}

\* sum(x) = 1 and 0 <= x[i] <= 1 for every i
IsFeasible(x) ==
    /\ ~x.nan
    /\ SumSeq(x.num) = x.den
    /\ \A i \in DOMAIN x.num : 0 <= x.num[i] /\ x.num[i] <= x.den

\* the grid vectors inside bounds (0, 1) that satisfy sum(x) - 1 = 0
FeasibleGrid(n) == {g \in GridVectors(n) : IsFeasible(g)}

----------------------------------------------------------------------------
(* portfolio_performance and negative_sharpe_ratio                          *)

\* sum over the periods of column i
ColSum(R, i) == SumSeq([t \in 1..Len(R) |-> R[t][i]])

CrossSum(R, i, j) == SumSeq([t \in 1..Len(R) |-> R[t][i] * R[t][j]])

\* returns.cov()[i][j] * T * (T - 1); returns.cov() is NaN when T < 2
CovNum(R, i, j) == Len(R) * CrossSum(R, i, j) - ColSum(R, i) * ColSum(R, j)

\* np.sum(returns.mean() * weights) * 252; the sum skips the NaN means of an
\* empty panel and is then 0
PortfolioReturn(w, R, n) ==
    IF w.nan THEN NaN
    ELSE IF Len(R) = 0 THEN Scalar(0, 1)
    ELSE Scalar(PeriodsPerYear * SumSeq([i \in 1..n |-> ColSum(R, i) * w.num[i]]),
                Len(R) * w.den)

\* np.dot(weights.T, np.dot(returns.cov() * 252, weights)): the square of the
\* portfolio volatility
PortfolioVariance(w, R, n) ==
    IF w.nan \/ Len(R) < 2 THEN NaN
    ELSE Scalar(PeriodsPerYear *
                  SumSeq([i \in 1..n |->
                     SumSeq([j \in 1..n |-> w.num[i] * w.num[j] * CovNum(R, i, j)])]),
                Len(R) * (Len(R) - 1) * w.den * w.den)

\* returns (portfolio_return, portfolio_volatility); the volatility is given
\* by its square, np.sqrt keeps NaN, zero and positive apart
portfolio_performance(w, R, n) ==
    [kind |-> "pair", ret |-> PortfolioReturn(w, R, n),
     vol_sq |-> PortfolioVariance(w, R, n)]

\* a / b in float64: NaN if an operand is NaN or 0 / 0, infinite if x / 0
\* with x # 0 (numpy warns and does not raise), finite otherwise
DivideKind(a_nan, a_zero, b_nan, b_zero) ==
    IF a_nan \/ b_nan THEN "nan"
    ELSE IF b_zero THEN (IF a_zero THEN "nan" ELSE "inf")
    ELSE "finite"

\* -(p_return - risk_free_rate) / p_volatility
negative_sharpe_ratio(w, R, n, rf) ==
    LET p == portfolio_performance(w, R, n)
    IN DivideKind(p.ret.nan, p.ret.num * rf.den = rf.num * p.ret.den,
                  p.vol_sq.nan, p.vol_sq.num = 0)

\* the risk-parity objective divides the risk contributions by
\* sqrt(portfolio_variance); with zero variance every contribution is 0 / 0
risk_parity_objective(w, R, n) ==
    LET v == PortfolioVariance(w, R, n)
    IN DivideKind(v.nan, v.num = 0, v.nan, v.num = 0)

\* sharpe_ratio = portfolio_return / portfolio_volatility of the objective of
\* calculate_optimal_contribution (no risk-free rate)
contribution_objective(w, R, n) ==
    LET p == portfolio_performance(w, R, n)
    IN DivideKind(p.ret.nan, p.ret.num = 0, p.vol_sq.nan, p.vol_sq.num = 0)

----------------------------------------------------------------------------
(* scipy.optimize.minimize(method='SLSQP') as the functions call it         *)
(*                                                                          *)
(* The solver is a library: its OptimizeResult [success, x] is one of       *)
(*   - converged: success, x is one of `feasible`, the grid vectors that    *)
(*     satisfy the bounds and the constraints handed to the solver;         *)
(*   - not converged (iteration limit, failed line search, incompatible     *)
(*     constraints): no success, x is the last iterate, any of the          *)
(*     `candidates` or the initial guess;                                   *)
(*   - objective not finite at the initial guess: the result is the         *)
(*     initial guess or a vector of NaN, flagged either way.                *)

minimize(x0, objective_at_x0, candidates, feasible) ==
    IF objective_at_x0 = "finite"
    THEN {[success |-> TRUE, x |-> x] : x \in feasible}
         \cup {[success |-> FALSE, x |-> x] : x \in candidates \cup {x0}}
    ELSE {[success |-> ok, x |-> x] :
            ok \in BOOLEAN, x \in {x0, NaNVector(Len(x0.num))}}

NoResult == [success |-> FALSE, x |-> None]
NoReturn == [kind |-> "none"]
ReturnWeights(x) == [kind |-> "weights", x |-> x]
Raise(e) == [kind |-> "error", error |-> e]

----------------------------------------------------------------------------
(* The optimizer functions                                                  *)

Panels(n) == UNION {[1..T -> [1..n -> ReturnValues]] : T \in 0..MaxPeriods}

OptInit ==
    /\ \E n \in UniverseSizes :
          /\ num_assets = n
          /\ returns \in Panels(n)
    /\ risk_free_rate \in RiskFreeRates
    /\ opt_mode = "none"
    /\ opt_args = None
    /\ opt_result = NoResult
    /\ opt_ret = NoReturn
    /\ opt_pc = "call"

OptCall(mode, args, result, ret) ==
    /\ opt_pc = "call"
    /\ opt_mode' = mode
    /\ opt_args' = args
    /\ opt_result' = result
    /\ opt_ret' = ret
    /\ opt_pc' = "done"
    /\ UNCHANGED <<returns, num_assets, risk_free_rate>>
    /\ UNCHANGED notOpt

\* optimize_portfolio(returns, risk_free_rate): maximum Sharpe
optimize_portfolio ==
    LET x0 == EqualWeights(num_assets)
    IN \E result \in minimize(x0,
                     negative_sharpe_ratio(x0, returns, num_assets, risk_free_rate),
                     GridVectors(num_assets), FeasibleGrid(num_assets)) :
          OptCall("max_sharpe", None, result, ReturnWeights(result.x))

\* risk_parity_optimization(returns)
risk_parity_optimization ==
    LET x0 == EqualWeights(num_assets)
    IN \E result \in minimize(x0, risk_parity_objective(x0, returns, num_assets),
                              GridVectors(num_assets), FeasibleGrid(num_assets)) :
          OptCall("risk_parity", None, result, ReturnWeights(result.x))

\* the solve of calculate_optimal_contribution: the initial guess is
\* current_weights, the result is taken as optimal_weights
calculate_optimal_contribution ==
    \E current_weights \in FeasibleGrid(num_assets) :
       \E result \in minimize(current_weights,
                       contribution_objective(current_weights, returns, num_assets),
                       GridVectors(num_assets), FeasibleGrid(num_assets)) :
          OptCall("contribution", current_weights, result, ReturnWeights(result.x))

\* portfolio_performance(weights, returns) called on its own
portfolio_performance_call ==
    \E w \in FeasibleGrid(num_assets) :
       OptCall("performance", w, NoResult,
               portfolio_performance(w, returns, num_assets))

OptNext ==
    \/ optimize_portfolio
    \/ risk_parity_optimization
    \/ calculate_optimal_contribution
    \/ portfolio_performance_call

OptIdle ==
    /\ returns = <<>>
    /\ num_assets = 0
    /\ risk_free_rate = Scalar(0, 1)
    /\ opt_mode = "none"
    /\ opt_args = None
    /\ opt_result = NoResult
    /\ opt_ret = NoReturn
    /\ opt_pc = "idle"

----------------------------------------------------------------------------
(* optimize_portfolio(returns, fundamental_data, momentum, ...,             *)
(*                    sector_constraints, style_constraints)                *)

Sectors == {"A", "B"}
Styles == {"value", "growth", "dividend"}

\* a value stock without dividend, a growth stock that pays one
FundamentalRows == {[pb |-> 1, roe |-> 1, dy |-> 0], [pb |-> 2, roe |-> 2, dy |-> 1]}

\* (min_weight, max_weight) pairs, in steps of 1 / WeightSteps
Bands == {[lo |-> 0, hi |-> 1], [lo |-> 1, hi |-> WeightSteps]}

\* the dicts with keys among K: at most MaxBands entries, in insertion order
BandDicts(K) ==
    UNION {{d \in [1..m -> [key : K, lo : {b.lo : b \in Bands}, hi : {b.hi : b \in Bands}]] :
              /\ \A k \in 1..m : [lo |-> d[k].lo, hi |-> d[k].hi] \in Bands
              /\ \A j, k \in 1..m : j # k => d[j].key # d[k].key}
           : m \in 0..MaxBands}

RECURSIVE Insert(_, _)
Insert(v, sorted) ==
    IF sorted = <<>> \/ v <= Head(sorted) THEN <<v>> \o sorted
    ELSE <<Head(sorted)>> \o Insert(v, Tail(sorted))

RECURSIVE SortAscending(_)
SortAscending(s) == IF s = <<>> THEN <<>> ELSE Insert(Head(s), SortAscending(Tail(s)))

\* twice the median of a column
TwiceMedian(column) ==
    LET sorted == SortAscending(column)
        n == Len(sorted)
    IN IF n % 2 = 1 THEN 2 * sorted[(n + 1) \div 2]
       ELSE sorted[n \div 2] + sorted[n \div 2 + 1]

\* sector_data[sector_data == sector].index
SectorAssets(sector) == {a \in DOMAIN sector_data : sector_data[a] = sector}

\* the if / elif chain that selects style_assets
StyleAssets(style) ==
    LET n == Len(fundamental_data)
        pb == [a \in 1..n |-> fundamental_data[a].pb]
        roe == [a \in 1..n |-> fundamental_data[a].roe]
    IN CASE style = "value" -> {a \in 1..n : 2 * pb[a] < TwiceMedian(pb)}
         [] style = "growth" -> {a \in 1..n : 2 * roe[a] > TwiceMedian(roe)}
         [] style = "dividend" -> {a \in 1..n : fundamental_data[a].dy > 0}

\* a closure: lambda x, assets=assets: np.sum(x[assets]) - min_weight (kind
\* "min") or max_weight - np.sum(x[assets]) (kind "max"). The asset subset is
\* a default argument, bound when the lambda is made; min_weight and
\* max_weight are free names, read when the lambda is called.
Closure(kind, assets, owner) == [kind |-> kind, assets |-> assets, owner |-> owner]

\* the bound a closure reads when it is called in the current state
BoundRead(c) == IF c.kind = "min" THEN min_weight[1] ELSE max_weight[1]

\* whether the closure's value is >= 0 at x
ClosureHolds(c, x) ==
    LET sum == SumOver(x.num, c.assets)
    IN IF c.kind = "min" THEN sum * WeightSteps >= BoundRead(c) * x.den
       ELSE BoundRead(c) * x.den >= sum * WeightSteps

MultiFactorInit ==
    /\ \E n \in UniverseSizes :
          /\ num_assets = n
          /\ sector_data \in [1..n -> Sectors]
          /\ fundamental_data \in [1..n -> FundamentalRows]
    /\ sector_constraints \in BandDicts(Sectors)
    /\ style_constraints \in BandDicts(Styles)
    /\ Len(sector_constraints) + Len(style_constraints) <= MaxBands
    /\ asset_index \in {"positions", "tickers"}
    /\ cov_matrix = "unset"
    /\ constraints = <<>>
    /\ min_weight = <<>>
    /\ max_weight = <<>>
    /\ evaluated = <<>>
    /\ mf_k = 1
    /\ mf_pc = "prepare"
    /\ returns = <<>>
    /\ risk_free_rate \in RiskFreeRates
    /\ opt_mode = "multi_factor"
    /\ opt_args = None
    /\ opt_result = NoResult
    /\ opt_ret = NoReturn
    /\ opt_pc = "idle"

MultiFactorInputs == <<sector_constraints, style_constraints, sector_data,
                       fundamental_data, asset_index, num_assets, risk_free_rate,
                       opt_mode, opt_pc, returns>>

\* where the for loops start: the first non-empty dict, or the solve
AfterPrepare ==
    IF Len(sector_constraints) > 0 THEN "sector_loop"
    ELSE IF Len(style_constraints) > 0 THEN "style_loop"
    ELSE "solve"

\* expected_returns and cov_matrix = LedoitWolf().fit(returns).covariance_:
\* the fit raises on a panel without rows; the shrunk covariance is zero when
\* every column of the panel is constant
mf_prepare ==
    /\ mf_pc = "prepare"
    /\ \E R \in Panels(num_assets) :
          IF Len(R) = 0
          THEN /\ opt_ret' = Raise("ValueError")
               /\ mf_pc' = "done"
               /\ UNCHANGED cov_matrix
          ELSE /\ cov_matrix' =
                     IF \A i \in 1..num_assets : CovNum(R, i, i) = 0
                     THEN "zero" ELSE "positive"
               /\ mf_pc' = AfterPrepare
               /\ UNCHANGED opt_ret
    /\ UNCHANGED <<constraints, min_weight, max_weight, evaluated, mf_k,
                   opt_args, opt_result>>
    /\ UNCHANGED MultiFactorInputs
    /\ UNCHANGED notMultiFactor

\* one iteration of: for sector, (min_weight, max_weight) in ...items()
mf_sector_iteration ==
    /\ mf_pc = "sector_loop"
    /\ LET entry == sector_constraints[mf_k]
           sector_assets == SectorAssets(entry.key)
       IN /\ min_weight' = <<entry.lo>>
          /\ max_weight' = <<entry.hi>>
          /\ constraints' = constraints \o
                <<Closure("min", sector_assets, entry.key),
                  Closure("max", sector_assets, entry.key)>>
    /\ IF mf_k < Len(sector_constraints)
       THEN mf_k' = mf_k + 1 /\ mf_pc' = "sector_loop"
       ELSE /\ mf_k' = 1
            /\ mf_pc' = IF Len(style_constraints) > 0 THEN "style_loop" ELSE "solve"
    /\ UNCHANGED <<cov_matrix, evaluated, opt_args, opt_result, opt_ret>>
    /\ UNCHANGED MultiFactorInputs
    /\ UNCHANGED notMultiFactor

\* one iteration of: for style, (min_weight, max_weight) in ...items()
mf_style_iteration ==
    /\ mf_pc = "style_loop"
    /\ LET entry == style_constraints[mf_k]
           style_assets == StyleAssets(entry.key)
       IN /\ min_weight' = <<entry.lo>>
          /\ max_weight' = <<entry.hi>>
          /\ constraints' = constraints \o
                <<Closure("min", style_assets, entry.key),
                  Closure("max", style_assets, entry.key)>>
    /\ IF mf_k < Len(style_constraints)
       THEN mf_k' = mf_k + 1 /\ mf_pc' = "style_loop"
       ELSE mf_k' = 1 /\ mf_pc' = "solve"
    /\ UNCHANGED <<cov_matrix, evaluated, opt_args, opt_result, opt_ret>>
    /\ UNCHANGED MultiFactorInputs
    /\ UNCHANGED notMultiFactor

\* bounds, initial_weights, minimize(...) and return result.x. The solver
\* calls the objective and every constraint closure at the initial weights:
\*  - with current_weights None, calculate_transaction_costs subtracts None
\*    from an array: TypeError;
\*  - with frames labelled by ticker, x[assets] indexes an array with
\*    strings: IndexError;
\*  - when both apply, the one of the function the solver calls first;
\*  - otherwise every closure is evaluated with the bound it reads then.
SolveErrors(current_weights) ==
    (IF current_weights = None THEN {"TypeError"} ELSE {})
    \cup (IF constraints # <<>> /\ asset_index = "tickers"
          THEN {"IndexError"} ELSE {})

mf_solve ==
    /\ mf_pc = "solve"
    /\ \E current_weights \in {None} \cup FeasibleGrid(num_assets) :
          /\ opt_args' = current_weights
          /\ IF SolveErrors(current_weights) # {}
             THEN /\ \E error \in SolveErrors(current_weights) :
                        opt_ret' = Raise(error)
                  /\ UNCHANGED <<opt_result, evaluated>>
             ELSE /\ evaluated' =
                        [k \in DOMAIN constraints |->
                           [owner |-> constraints[k].owner,
                            kind |-> constraints[k].kind,
                            assets |-> constraints[k].assets,
                            bound |-> BoundRead(constraints[k])]]
                  /\ \E result \in
                        minimize(current_weights,
                                 IF cov_matrix = "zero" THEN "nan" ELSE "finite",
                                 GridVectors(num_assets),
                                 {g \in FeasibleGrid(num_assets) :
                                    \A k \in DOMAIN constraints :
                                       ClosureHolds(constraints[k], g)}) :
                        /\ opt_result' = result
                        /\ opt_ret' = ReturnWeights(result.x)
    /\ mf_pc' = "done"
    /\ UNCHANGED <<cov_matrix, constraints, min_weight, max_weight, mf_k>>
    /\ UNCHANGED MultiFactorInputs
    /\ UNCHANGED notMultiFactor

MultiFactorNext ==
    \/ mf_prepare
    \/ mf_sector_iteration
    \/ mf_style_iteration
    \/ mf_solve

MultiFactorIdle ==
    /\ sector_constraints = <<>>
    /\ style_constraints = <<>>
    /\ sector_data = <<>>
    /\ fundamental_data = <<>>
    /\ asset_index = "positions"
    /\ cov_matrix = "unset"
    /\ constraints = <<>>
    /\ min_weight = <<>>
    /\ max_weight = <<>>
    /\ evaluated = <<>>
    /\ mf_k = 0
    /\ mf_pc = "idle"

----------------------------------------------------------------------------
(* optimize_weights(ativos_df) and calculate_score                          *)
(*                                                                          *)
(* A row of the asset table holds the seven terms that calculate_score      *)
(* weighs (ROE / P/L, 1 / P/VP, log(Volume), revenue_growth, income_growth, *)
(* debt_stability, Dividend Yield) and the cumulative return of the asset.  *)
(* get_cumulative_return returns None for a ticker without history: in a    *)
(* column that also holds numbers the None is a NaN, a column of None only  *)
(* is a column of objects.                                                  *)

TermRows == {[k \in 1..NumFactors |-> 0], [k \in 1..NumFactors |-> 1],
             [k \in 1..NumFactors |-> IF k = 1 THEN 1 ELSE 0]}

CumulativeReturns == {Scalar(0, 1), Scalar(1, 1), NaN}

AssetRows == [terms : TermRows, cumulative_return : CumulativeReturns]

\* calculate_score: the numerator of the score of one row over w.den
calculate_score(row, w) ==
    SumSeq([k \in 1..NumFactors |-> w.num[k] * row.terms[k]])

\* n * sum(v^2) - sum(v)^2: zero exactly when v is constant
SpreadOf(v) ==
    Len(v) * SumSeq([k \in 1..Len(v) |-> v[k] * v[k]]) - SumSeq(v) * SumSeq(v)

\* np.corrcoef(scores, cumulative returns)[0, 1]: NaN with fewer than 2
\* rows, with a NaN cell, or when one of the two columns is constant
corrcoef(df, w) ==
    LET n == Len(df)
        scores == [i \in 1..n |-> calculate_score(df[i], w)]
        rets == [i \in 1..n |-> df[i].cumulative_return.num]
    IN IF \/ w.nan
          \/ n < 2
          \/ \E i \in 1..n : df[i].cumulative_return.nan
          \/ SpreadOf(scores) = 0
          \/ SpreadOf(rets) = 0
       THEN "nan" ELSE "finite"

\* the vectors with a single weight 1, which satisfy the constraints
UnitVectors(n) == {Vector([k \in 1..n |-> IF k = j THEN 1 ELSE 0], 1) : j \in 1..n}

\* a starting point taken from the weights of the call before
initial_weights_warm_start(previous) ==
    IF previous = None THEN EqualWeights(NumFactors) ELSE previous

\* initial_weights = np.array([1/7] * 7), whatever was calibrated before
initial_weights(previous) == EqualWeights(NumFactors)

\* what optimize_weights hands to minimize: the objective, a closure over
\* the table, and the starting point
CalibrationProblem(df, previous) ==
    [table |-> df, x0 |-> initial_weights(previous)]

\* the outcomes of solving one problem. np.corrcoef cannot average a column
\* of None: the first call of the objective raises TypeError, which
\* minimize lets through.
CalibrationOutcomes(problem) ==
    IF \A i \in 1..Len(problem.table) : problem.table[i].cumulative_return.nan
    THEN {Raise("TypeError")}
    ELSE {[kind |-> "result", result |-> r] :
            r \in minimize(problem.x0, corrcoef(problem.table, problem.x0),
                    UnitVectors(NumFactors)
                       \cup {Vector([k \in 1..NumFactors |-> 0], 1)},
                    UnitVectors(NumFactors) \cup {EqualWeights(NumFactors)})}

\* optimize_weights: initial_weights = [1/7] * 7, minimize, return result.x.
optimize_weights(df) == CalibrationOutcomes(CalibrationProblem(df, None))

CalibInit ==
    /\ \E n \in 1..MaxCalibAssets : ativos_df \in [1..n -> AssetRows]
    /\ calib_result = NoResult
    /\ optimized_weights = None
    /\ scoring_weights = None
    /\ calib_pc = "calibrate"

\* main: optimized_weights = optimize_weights(ativos_df), then every row is
\* scored by calculate_adjusted_score(row, optimized_weights); the call is
\* in no try block, an exception ends main
main_calibrate ==
    /\ calib_pc = "calibrate"
    /\ \E out \in optimize_weights(ativos_df) :
          IF out.kind = "error"
          THEN /\ calib_pc' = "exception"
               /\ UNCHANGED <<calib_result, optimized_weights, scoring_weights>>
          ELSE /\ calib_result' = out.result
               /\ optimized_weights' = out.result.x
               /\ scoring_weights' = out.result.x
               /\ calib_pc' = "scored"
    /\ UNCHANGED ativos_df
    /\ UNCHANGED notCalib

CalibNext == main_calibrate

CalibIdle ==
    /\ ativos_df = <<>>
    /\ calib_result = NoResult
    /\ optimized_weights = None
    /\ scoring_weights = None
    /\ calib_pc = "idle"

----------------------------------------------------------------------------
(* main, 'Recomendação de Ativos': the count check and the anomaly loop     *)

\* lengths of the price series that get_stock_data delivers for a ticker
SeriesLengths == 0..MaxSeries

\* flagged fractions, in tenths, that a fitted model can produce
FlaggedTenths == {0, 1}

\* detect_price_anomalies(prices): returns = prices.pct_change().dropna(),
\* ARIMA(returns, order=(1,1,1)).fit(), flags |z| > threshold. The fit
\* raises on a series without returns and may raise on any other one; the
\* function has no handler, so the exception reaches its caller.
ReturnsLength(length) == IF length > 0 THEN length - 1 ELSE 0

detect_price_anomalies(length) ==
    {Raise("ValueError")}
    \cup (IF ReturnsLength(length) = 0 THEN {}
          ELSE {[kind |-> "flags", mean |-> f] : f \in FlaggedTenths})

MainInit ==
    /\ tickers_raw \in {MinAssets - 1, MinAssets}
    /\ series_length = 0
    /\ price_anomaly = <<>>
    /\ main_i = 1
    /\ main_pc = "check_assets"

\* if len(ativos_df) < 10: st.error(...); return
main_check_assets ==
    /\ main_pc = "check_assets"
    /\ main_pc' = IF tickers_raw < MinAssets THEN "returned" ELSE "anomaly_loop"
    /\ UNCHANGED <<tickers_raw, series_length, price_anomaly, main_i>>
    /\ UNCHANGED notMain

\* one iteration of: for ticker in tickers_raw: price_anomalies =
\* detect_price_anomalies(stock_data_raw[ticker]) ...; the call is in no try
\* block, an exception of the fit ends main
main_anomaly_iteration ==
    /\ main_pc = "anomaly_loop"
    /\ \E length \in SeriesLengths :
          \E price_anomalies \in detect_price_anomalies(length) :
             /\ series_length' = length
             /\ IF price_anomalies.kind = "error"
                THEN /\ main_pc' = "exception"
                     /\ UNCHANGED <<price_anomaly, main_i>>
                ELSE /\ price_anomaly' = Append(price_anomaly, price_anomalies.mean)
                     /\ main_i' = main_i + 1
                     /\ main_pc' = IF main_i = tickers_raw THEN "calibrate"
                                   ELSE "anomaly_loop"
    /\ UNCHANGED tickers_raw
    /\ UNCHANGED notMain

MainNext == main_check_assets \/ main_anomaly_iteration

MainIdle ==
    /\ tickers_raw = 0
    /\ series_length = 0
    /\ price_anomaly = <<>>
    /\ main_i = 0
    /\ main_pc = "idle"

----------------------------------------------------------------------------
(* One ticker of the anomaly loop of main, on the prices of the ticker:     *)
(* detect_price_anomalies, calculate_rsi and the two rates main derives.    *)

\* the window arguments: two short ones and the default
RsiWindows == {2, 3, RsiWindow}

StockSeries == UNION {[1..n -> 1..MaxPrice] : n \in 0..MaxRsiSeries}

\* prices.diff(): entry 1 is NaN, given here as 0 because both where(..., 0)
\* of calculate_rsi replace it by 0
Diff(series, t) == IF t = 1 THEN 0 ELSE series[t] - series[t - 1]

\* the sum of delta.where(delta > 0, 0) over the window that ends at t
GainSum(series, window, t) ==
    SumSeq([k \in 1..window |->
              LET delta == Diff(series, t - window + k)
              IN IF delta > 0 THEN delta ELSE 0])

\* the sum of -delta.where(delta < 0, 0) over the window that ends at t
LossSum(series, window, t) ==
    SumSeq([k \in 1..window |->
              LET delta == Diff(series, t - window + k)
              IN IF delta < 0 THEN -delta ELSE 0])

\* calculate_rsi: rs = gain / loss, rsi = 100 - 100 / (1 + rs). The rolling
\* means are NaN before the window is full; 0 / 0 is NaN; gain / 0 is inf
\* and gives 100; otherwise 100 - 100 / (1 + G / L) = 100 * G / (G + L).
calculate_rsi(series, window) ==
    [t \in 1..Len(series) |->
        IF t < window THEN NaN
        ELSE LET gain == GainSum(series, window, t)
                 loss == LossSum(series, window, t)
             IN IF gain = 0 /\ loss = 0 THEN NaN
                ELSE Scalar(100 * gain, gain + loss)]

\* rsi > 70 and rsi < 30: a comparison with NaN is False
IsOverboughtOverlapping(r) == ~r.nan /\ r.num > 20 * r.den

IsOverbought(r) == ~r.nan /\ r.num > 70 * r.den

IsOversold(r) == ~r.nan /\ r.num < 30 * r.den

\* series.mean() of a boolean series, as count / length
Mean(flags) ==
    Scalar(Cardinality({t \in DOMAIN flags : flags[t]}), Len(flags))

\* the sum of two means over the same series
AddMeans(a, b) == Scalar(a.num + b.num, a.den)

\* the outcomes of detect_price_anomalies on a price series: the ARIMA fit
\* raises on a series without returns and may raise on any other; a fitted
\* model gives one flag per return. On a constant series the returns are all
\* zero, so are the residuals, every z-score is 0 / 0 and no flag is set.
PriceAnomalyOutcomes(series) ==
    LET n == ReturnsLength(Len(series))
    IN {Raise("ValueError")}
       \cup (IF n = 0 THEN {}
             ELSE {[kind |-> "flags", flags |-> f] :
                     f \in IF \A t \in DOMAIN series : series[t] = series[1]
                           THEN {[t \in 1..n |-> FALSE]}
                           ELSE [1..n -> BOOLEAN]})

AnomalyInit ==
    /\ stock_series \in StockSeries
    /\ rsi_window \in RsiWindows
    /\ price_flags = <<>>
    /\ rsi = <<>>
    /\ rsi_anomaly = NaN
    /\ rsi_anomalies = NaN
    /\ anomaly_pc = "ticker"

\* the body of: for ticker in tickers_raw (the two rates of the ticker), and
\* rsi_anomalies of the anomaly table, computed from the same series
anomaly_iteration ==
    /\ anomaly_pc = "ticker"
    /\ \E out \in PriceAnomalyOutcomes(stock_series) :
          IF out.kind = "error"
          THEN /\ anomaly_pc' = "exception"
               /\ UNCHANGED <<price_flags, rsi, rsi_anomaly, rsi_anomalies>>
          ELSE LET r == calculate_rsi(stock_series, rsi_window)
               IN /\ price_flags' = out.flags
                  /\ rsi' = r
                  /\ rsi_anomaly' =
                        AddMeans(Mean([t \in DOMAIN r |-> IsOverbought(r[t])]),
                                 Mean([t \in DOMAIN r |-> IsOversold(r[t])]))
                  /\ rsi_anomalies' =
                        Mean([t \in DOMAIN r |->
                                IsOverbought(r[t]) \/ IsOversold(r[t])])
                  /\ anomaly_pc' = "stored"
    /\ UNCHANGED <<stock_series, rsi_window>>
    /\ UNCHANGED notAnomaly

AnomalyNext == anomaly_iteration

AnomalyIdle ==
    /\ stock_series = <<>>
    /\ rsi_window = 0
    /\ price_flags = <<>>
    /\ rsi = <<>>
    /\ rsi_anomaly = NaN
    /\ rsi_anomalies = NaN
    /\ anomaly_pc = "idle"

----------------------------------------------------------------------------
(* calculate_returns(prices)                                                *)
(*                                                                          *)
(* A cell of the price panel is a price >= 0 or NaN (no quote that day). A  *)
(* cell of the returns is finite, infinite or NaN.                          *)

PriceCells == {Scalar(p, 1) : p \in 0..MaxPrice} \cup {NaN}

PricePanels(n) == UNION {[1..T -> [1..n -> PriceCells]] : T \in 0..MaxPeriods}

\* DataFrame.pct_change fills a missing price with the last quote before it
\* computes the change (fill_method "pad", the default up to pandas 2) or
\* leaves it missing (None, the default from pandas 3 on)
FillMethods == {"pad", "None"}

\* the price of asset i at row t after the fill
RECURSIVE Filled(_, _, _, _)
Filled(panel, t, i, fill) ==
    IF ~panel[t][i].nan \/ fill = "None" \/ t = 1 THEN panel[t][i]
    ELSE Filled(panel, t - 1, i, fill)

Finite(n, d) == [kind |-> "finite", num |-> n, den |-> d]
NotFinite(k) == [kind |-> k, num |-> 0, den |-> 1]

\* one cell of prices.pct_change(): current / previous - 1 in float64
PctChange(panel, t, i, fill) ==
    IF t = 1 THEN NotFinite("nan")
    ELSE LET current == Filled(panel, t, i, fill)
             previous == Filled(panel, t - 1, i, fill)
         IN IF current.nan \/ previous.nan THEN NotFinite("nan")
            ELSE IF previous.num = 0
                 THEN (IF current.num = 0 THEN NotFinite("nan")
                       ELSE NotFinite("inf"))
            ELSE Finite(current.num - previous.num, previous.num)

\* the rows that survive .dropna(), .replace([inf, -inf], nan) and .dropna()
KeptRows(panel, n, fill) ==
    {t \in 1..Len(panel) :
        \A i \in 1..n : PctChange(panel, t, i, fill).kind = "finite"}

RECURSIVE SetToSortedSeq(_)
SetToSortedSeq(S) ==
    IF S = {} THEN <<>>
    ELSE LET least == CHOOSE x \in S : \A y \in S : x <= y
         IN <<least>> \o SetToSortedSeq(S \ {least})

EmptyDataFrameRaises == Raise("ValueError")

\* pd.DataFrame()
EmptyDataFrame == [kind |-> "frame", columns |-> 0, index |-> <<>>, rows |-> <<>>]

\* prices.empty: an axis of length 0
IsEmpty(panel, n) == Len(panel) = 0 \/ n = 0

calculate_returns(panel, n, fill) ==
    IF IsEmpty(panel, n) THEN EmptyDataFrame
    ELSE LET index == SetToSortedSeq(KeptRows(panel, n, fill))
         IN [kind |-> "frame", columns |-> n, index |-> index,
             rows |-> [k \in 1..Len(index) |->
                         [i \in 1..n |-> PctChange(panel, index[k], i, fill)]]]

ReturnsInit ==
    /\ \E n \in {0} \cup UniverseSizes :
          /\ panel_columns = n
          /\ price_panel \in PricePanels(n)
    /\ fill_method \in FillMethods
    /\ returns_frame = NoReturn
    /\ returns_pc = "call"

calculate_returns_call ==
    /\ returns_pc = "call"
    /\ returns_frame' = calculate_returns(price_panel, panel_columns, fill_method)
    /\ returns_pc' = "done"
    /\ UNCHANGED <<price_panel, panel_columns, fill_method>>
    /\ UNCHANGED notReturns

ReturnsNext == calculate_returns_call

ReturnsIdle ==
    /\ price_panel = <<>>
    /\ panel_columns = 0
    /\ fill_method = "None"
    /\ returns_frame = NoReturn
    /\ returns_pc = "idle"

----------------------------------------------------------------------------
(* main, 'Recomendação de Ativos': the fundamentals and their filter        *)
(*                                                                          *)
(* A record of the merged asset table gives, for each of the ten fields of  *)
(* the filter, whether the value is a finite number, NaN / None, or         *)
(* infinite.                                                                *)

ScoreFields == {"P/L", "P/VP", "ROE", "ROIC", "Dividend Yield", "Volume",
                "Price", "revenue_growth", "income_growth", "debt_stability"}

GrowthFields == {"revenue_growth", "income_growth", "debt_stability"}

\* every field is a finite number
CompleteRecord == [f \in ScoreFields |-> "finite"]

\* get_financial_growth_data returned None: its three fields are missing
NoGrowthRecord ==
    [f \in ScoreFields |-> IF f \in GrowthFields THEN "nan" ELSE "finite"]

\* get_financial_growth_data with 'Total Debt' 0 in the first year: the ratio
\* of two numpy floats is inf (no exception), debt_stability is -inf
ZeroDebtRecord ==
    [f \in ScoreFields |-> IF f = "debt_stability" THEN "inf" ELSE "finite"]

AssetRecords == {CompleteRecord, NoGrowthRecord, ZeroDebtRecord}

\* DataFrame.dropna(subset=[...]): the rows without NaN / None in the ten
\* fields; an infinite value is not a missing one
dropna(df) ==
    SelectSeq(df, LAMBDA row : \A f \in ScoreFields : row[f] # "nan")

ScreenInit ==
    /\ screened_df = <<>>
    /\ \/ /\ screen_pc = "fetch"
          /\ ticker_count \in 1..MaxAssets
          /\ fetch_i = 1
          /\ fundamental_df = <<>>
       \/ /\ screen_pc = "filter"
          /\ \E n \in {MinAssets - 1, MinAssets, MinAssets + 1} :
                /\ ticker_count = n
                /\ fundamental_df \in [1..n -> AssetRecords]
          /\ fetch_i = ticker_count + 1

\* one iteration of: for i, ticker in enumerate(ativos_df['Ticker']), and
\* after the last one fundamental_df and the merge. The name
\* get_fundamental_data is bound to the definition of line 619, which
\* iterates over its argument and returns a DataFrame:
\*  - with growth data, data.update(growth_data) builds a DataFrame from a
\*    dict of scalars: ValueError;
\*  - without, the list collects DataFrames; pd.DataFrame of that list has no
\*    column 'Ticker' and the merge raises.
main_fetch_fundamentals ==
    /\ screen_pc = "fetch"
    /\ \E growth_data \in {"None", "dict"} :
          IF growth_data = "dict" \/ fetch_i = ticker_count
          THEN screen_pc' = "exception" /\ UNCHANGED fetch_i
          ELSE screen_pc' = "fetch" /\ fetch_i' = fetch_i + 1
    /\ UNCHANGED <<ticker_count, fundamental_df, screened_df>>
    /\ UNCHANGED notScreen

\* ativos_df.dropna(subset=[...]), the count check, then the Score column
main_filter_assets ==
    /\ screen_pc = "filter"
    /\ screened_df' = dropna(fundamental_df)
    /\ screen_pc' = IF Len(dropna(fundamental_df)) < MinAssets
                    THEN "returned" ELSE "score"
    /\ UNCHANGED <<ticker_count, fetch_i, fundamental_df>>
    /\ UNCHANGED notScreen

ScreenNext == main_fetch_fundamentals \/ main_filter_assets

ScreenIdle ==
    /\ ticker_count = 0
    /\ fetch_i = 0
    /\ fundamental_df = <<>>
    /\ screened_df = <<>>
    /\ screen_pc = "idle"

----------------------------------------------------------------------------
(* adjust_weights_for_anomalies(weights, anomaly_scores)                    *)

\* adjusted_weights = weights * (1 - anomaly_scores), then
\* adjusted_weights / adjusted_weights.sum(); 0 / 0 is NaN in every
\* component
adjust_weights_for_anomalies(w, scores) ==
    LET adjusted == [i \in DOMAIN w.num |-> w.num[i] * (ScoreSteps - scores[i])]
    IN IF SumSeq(adjusted) = 0 THEN NaNVector(Len(w.num))
       ELSE Vector(adjusted, SumSeq(adjusted))

AdjustInit ==
    /\ \E n \in UniverseSizes :
          /\ optimal_weights \in FeasibleGrid(n)
          /\ anomaly_scores \in [1..n -> 0..ScoreSteps]
    /\ adjusted_weights = None
    /\ adjust_pc = "call"

adjust_weights_for_anomalies_call ==
    /\ adjust_pc = "call"
    /\ adjusted_weights' =
          adjust_weights_for_anomalies(optimal_weights, anomaly_scores)
    /\ adjust_pc' = "done"
    /\ UNCHANGED <<optimal_weights, anomaly_scores>>
    /\ UNCHANGED notAdjust

AdjustNext == adjust_weights_for_anomalies_call

AdjustIdle ==
    /\ optimal_weights = None
    /\ anomaly_scores = <<>>
    /\ adjusted_weights = None
    /\ adjust_pc = "idle"

----------------------------------------------------------------------------
(* main: top_ativos = ativos_df.nlargest(10, 'Adjusted_Score')              *)

\* rows of the scored table: the adjusted score and the Score column
RankRows == {[Adjusted_Score |-> 1, Score |-> 0],
             [Adjusted_Score |-> 0, Score |-> 0],
             [Adjusted_Score |-> 0, Score |-> 1]}

\* DataFrame.nlargest(n, column), keep='first': the rows by column
\* descending, rows with the same value in the order of the frame, cut
\* after n rows; given as the positions of the rows
RECURSIVE nlargest(_, _, _)
nlargest(n, df, left) ==
    IF n = 0 \/ left = {} THEN <<>>
    ELSE LET first == CHOOSE r \in left :
                         \A q \in left \ {r} :
                            \/ df[r].Adjusted_Score > df[q].Adjusted_Score
                            \/ /\ df[r].Adjusted_Score = df[q].Adjusted_Score
                               /\ r < q
         IN <<first>> \o nlargest(n - 1, df, left \ {first})

RankInit ==
    /\ \E n \in {MinAssets, MinAssets + 1} : scored_df \in [1..n -> RankRows]
    /\ top_ativos = <<>>
    /\ rank_pc = "rank"

main_select_top ==
    /\ rank_pc = "rank"
    /\ top_ativos' = nlargest(TopN, scored_df, DOMAIN scored_df)
    /\ rank_pc' = "ranked"
    /\ UNCHANGED scored_df
    /\ UNCHANGED notRank

RankNext == main_select_top

RankIdle ==
    /\ scored_df = <<>>
    /\ top_ativos = <<>>
    /\ rank_pc = "idle"

----------------------------------------------------------------------------
(* The module global risk_free_rate: main binds it (global risk_free_rate; *)
(* risk_free_rate = 0.1) and generate_random_portfolios reads it.          *)

\* the name risk_free_rate before any assignment to it
Unbound == [nan |-> TRUE, num |-> 0, den |-> 0]

\* expected return and volatility of one drawn portfolio, as
\* portfolio_performance(weights, returns) gives them for the arguments
PortfolioReturns == -1..2
PortfolioVolatilities == 1..2

\* 'Sharpe': (p_return - risk_free_rate) / p_volatility, the rate looked up
\* in the module namespace when the line runs
generate_random_portfolios(p_return, p_volatility, rate) ==
    IF rate = Unbound THEN Raise("NameError")
    ELSE [kind |-> "result",
          result |-> Scalar(p_return * rate.den - rate.num,
                            rate.den * p_volatility)]

RateInit ==
    /\ global_risk_free_rate = Unbound
    /\ sharpe_calls = <<>>
    /\ rate_pc = "run"

\* main: global risk_free_rate; risk_free_rate = 0.1
main_set_risk_free_rate ==
    /\ rate_pc = "run"
    /\ global_risk_free_rate' = Scalar(1, 10)
    /\ UNCHANGED <<sharpe_calls, rate_pc>>
    /\ UNCHANGED notRate

\* one call generate_random_portfolios(returns), one drawn portfolio of it
generate_random_portfolios_call ==
    /\ rate_pc = "run"
    /\ Len(sharpe_calls) < MaxCalls
    /\ \E p_return \in PortfolioReturns, p_volatility \in PortfolioVolatilities :
          sharpe_calls' = Append(sharpe_calls,
              [p_return |-> p_return, p_volatility |-> p_volatility,
               outcome |-> generate_random_portfolios(p_return, p_volatility,
                                                      global_risk_free_rate)])
    /\ UNCHANGED <<global_risk_free_rate, rate_pc>>
    /\ UNCHANGED notRate

RateNext ==
    \/ main_set_risk_free_rate
    \/ generate_random_portfolios_call

RateIdle ==
    /\ global_risk_free_rate = Unbound
    /\ sharpe_calls = <<>>
    /\ rate_pc = "idle"

----------------------------------------------------------------------------
(* optimize_weights called again on the same table. SLSQP has no random    *)
(* component: given the same objective, starting point, bounds and         *)
(* constraints it returns the same result, so the solver is a function of  *)
(* the problem, unknown but fixed. slsqp_memo holds the part of that       *)
(* function met so far.                                                    *)

Solved(problem) == {m \in slsqp_memo : m.problem = problem}

RecalInit ==
    /\ \E n \in 1..MaxCalibAssets : recal_df \in [1..n -> AssetRows]
    /\ slsqp_memo = {}
    /\ recal_runs = <<>>
    /\ last_weights = None
    /\ recal_pc = "run"

\* optimized_weights = optimize_weights(ativos_df)
optimize_weights_run ==
    /\ recal_pc = "run"
    /\ Len(recal_runs) < MaxRuns
    /\ LET problem == CalibrationProblem(recal_df, last_weights)
       IN \E outcome \in CalibrationOutcomes(problem) :
             /\ Solved(problem) # {} =>
                   outcome = (CHOOSE m \in Solved(problem) : TRUE).outcome
             /\ slsqp_memo' = slsqp_memo
                                 \cup {[problem |-> problem, outcome |-> outcome]}
             /\ recal_runs' = Append(recal_runs,
                                  [table |-> recal_df, outcome |-> outcome])
             /\ last_weights' = IF outcome.kind = "result"
                                THEN outcome.result.x ELSE last_weights
    /\ UNCHANGED <<recal_df, recal_pc>>
    /\ UNCHANGED notRecal

RecalNext == optimize_weights_run

RecalIdle ==
    /\ recal_df = <<>>
    /\ slsqp_memo = {}
    /\ recal_runs = <<>>
    /\ last_weights = None
    /\ recal_pc = "idle"

----------------------------------------------------------------------------
(* calculate_adjusted_score(row, optimized_weights)                         *)

\* values of the columns price_anomaly and rsi_anomaly: fractions of a
\* series, and numbers above them that a caller can put in a row
AnomalyValues == {Scalar(0, 1), Scalar(1, 2), Scalar(1, 1), Scalar(10, 1),
                  Scalar(21, 1)}

\* (ROE + ROIC) / 2
QualityFactors == {0, 1}

ScoreRowsIn == [terms : TermRows, quality_factor : QualityFactors,
                price_anomaly : AnomalyValues, rsi_anomaly : AnomalyValues]

\* a + b of two rationals
Plus(a, b) == Scalar(a.num * b.den + b.num * a.den, a.den * b.den)

\* anomaly_penalty = sum([row[col] for col in ['price_anomaly',
\* 'rsi_anomaly']])
anomaly_penalty(row) == Plus(row.price_anomaly, row.rsi_anomaly)

\* 1 - 0.05 * anomaly_penalty
PenaltyFactor(penalty) ==
    Scalar(20 * penalty.den - penalty.num, 20 * penalty.den)

\* base_score * (1 + quality_factor * 0.1)
AdjustedBaseScore(row, w) ==
    Scalar(calculate_score(row, w) * (10 + row.quality_factor), w.den * 10)

Times(a, b) == Scalar(a.num * b.num, a.den * b.den)

ScoreInit ==
    /\ score_row \in ScoreRowsIn
    /\ score_weights \in UnitVectors(NumFactors) \cup {EqualWeights(NumFactors)}
    /\ adjusted_base_score = NaN
    /\ penalty_factor = NaN
    /\ final_score = NaN
    /\ score_pc = "call"

calculate_adjusted_score ==
    /\ score_pc = "call"
    /\ adjusted_base_score' = AdjustedBaseScore(score_row, score_weights)
    /\ penalty_factor' = PenaltyFactor(anomaly_penalty(score_row))
    /\ final_score' = Times(AdjustedBaseScore(score_row, score_weights),
                            PenaltyFactor(anomaly_penalty(score_row)))
    /\ score_pc' = "done"
    /\ UNCHANGED <<score_row, score_weights>>
    /\ UNCHANGED notScore

ScoreNext == calculate_adjusted_score

ScoreIdle ==
    /\ score_row = <<>>
    /\ score_weights = None
    /\ adjusted_base_score = NaN
    /\ penalty_factor = NaN
    /\ final_score = NaN
    /\ score_pc = "idle"

----------------------------------------------------------------------------
(* The two definitions named optimize_portfolio and the call in main.       *)
(* A def statement binds its name when the module body reaches it; main     *)
(* runs after the whole module body.                                        *)

\* number of required positional parameters of each definition
Arity(binding) ==
    IF binding = "max_sharpe" THEN 2
    ELSE IF binding = "multi_factor" THEN 10
    ELSE 0

\* a call with n positional arguments of the function bound to the name
CallError(binding, n) ==
    IF binding = "unbound" THEN "NameError"
    ELSE IF Arity(binding) # n THEN "TypeError"
    ELSE "none"

FlowInit ==
    /\ bound_optimize_portfolio = "unbound"
    /\ \E n \in UniverseSizes : flow_returns \in Panels(n)
    /\ flow_error = "none"
    /\ flow_pc = "def_132"

\* def optimize_portfolio(returns, risk_free_rate)
module_def_max_sharpe ==
    /\ flow_pc = "def_132"
    /\ bound_optimize_portfolio' = "max_sharpe"
    /\ flow_pc' = "def_669"
    /\ UNCHANGED <<flow_returns, flow_error>>
    /\ UNCHANGED notFlow

\* def optimize_portfolio(returns, fundamental_data, ..., style_constraints)
module_def_multi_factor ==
    /\ flow_pc = "def_669"
    /\ bound_optimize_portfolio' = "multi_factor"
    /\ flow_pc' = "check_returns"
    /\ UNCHANGED <<flow_returns, flow_error>>
    /\ UNCHANGED notFlow

\* if returns.empty: st.error(...); return
main_check_returns ==
    /\ flow_pc = "check_returns"
    /\ flow_pc' = IF Len(flow_returns) = 0 THEN "returned" ELSE "optimize"
    /\ UNCHANGED <<bound_optimize_portfolio, flow_returns, flow_error>>
    /\ UNCHANGED notFlow

\* try: optimal_weights = optimize_portfolio(returns, risk_free_rate) ...
\* except Exception as e: st.error(...); return
main_optimize ==
    /\ flow_pc = "optimize"
    /\ LET error == CallError(bound_optimize_portfolio, 2)
       IN IF error # "none"
          THEN /\ flow_error' = error
               /\ flow_pc' = "optimization_error"
          ELSE /\ flow_error' = "none"
               /\ flow_pc' = "allocate"
    /\ UNCHANGED <<bound_optimize_portfolio, flow_returns>>
    /\ UNCHANGED notFlow

FlowNext ==
    \/ module_def_max_sharpe
    \/ module_def_multi_factor
    \/ main_check_returns
    \/ main_optimize

FlowIdle ==
    /\ bound_optimize_portfolio = "unbound"
    /\ flow_returns = <<>>
    /\ flow_error = "none"
    /\ flow_pc = "idle"

----------------------------------------------------------------------------
(* The name risk_free_rate on the way to plot_efficient_frontier, in        *)
(* src/portfolio_performance.py and in src/app.py. Each flow is taken from  *)
(* the point where its returns panel exists; the steps between that point   *)
(* and the plot that do not touch the name are one step here. app.py is     *)
(* modelled as its statements stand: the file holds a stray copy of its     *)
(* for statement at column 0 (line 206).                                   *)

Applications == {"portfolio_performance", "app"}

\* the assignments to the module name risk_free_rate on the way to the plot:
\* portfolio_performance.main lines 1054-1055, none in app.py
RateAfterOptimize(app, rate) ==
    IF app = "portfolio_performance" THEN Scalar(1, 10) ELSE rate

RateFlowInit ==
    /\ application \in Applications
    /\ module_risk_free_rate = Unbound
    /\ \E n \in UniverseSizes : plot_returns \in Panels(n) \ {<<>>}
    /\ plot_outcome = NoReturn
    /\ rate_flow_pc = "before_optimize"

\* portfolio_performance.main: global risk_free_rate; risk_free_rate = 0.1;
\* optimization, allocation, metrics.
\* app.main: optimal_portfolio = risk_parity_optimization(stock_returns)
main_optimize_and_report ==
    /\ rate_flow_pc = "before_optimize"
    /\ module_risk_free_rate' =
          RateAfterOptimize(application, module_risk_free_rate)
    /\ rate_flow_pc' = "plot"
    /\ UNCHANGED <<application, plot_returns, plot_outcome>>
    /\ UNCHANGED notRateFlow

\* fig = plot_efficient_frontier(returns, weights): its first statement
\* calls generate_random_portfolios, which reads risk_free_rate
main_plot_efficient_frontier ==
    /\ rate_flow_pc = "plot"
    /\ \E p_return \in PortfolioReturns, p_volatility \in PortfolioVolatilities :
          plot_outcome' = generate_random_portfolios(p_return, p_volatility,
                                                     module_risk_free_rate)
    /\ rate_flow_pc' = "done"
    /\ UNCHANGED <<application, module_risk_free_rate, plot_returns>>
    /\ UNCHANGED notRateFlow

RateFlowNext ==
    \/ main_optimize_and_report
    \/ main_plot_efficient_frontier

RateFlowIdle ==
    /\ application = "none"
    /\ module_risk_free_rate = Unbound
    /\ plot_returns = <<>>
    /\ plot_outcome = NoReturn
    /\ rate_flow_pc = "idle"

----------------------------------------------------------------------------
(* buy_stock, sell_stock (log_transaction) and the replay loop of           *)
(* get_portfolio_performance                                                *)

LedgerTickers == {"A", "B"}
TransactionDates == 1..2
\* st.number_input('Quantidade', min_value=1, step=1)
Quantities == 1..2
\* st.number_input('Preço', min_value=0.01)
TransactionPrices == 1..2

\* log_transaction(date, ticker, action, quantity, price)
Transaction(date, ticker, action, quantity, price) ==
    [Date |-> date, Ticker |-> ticker, Action |-> action,
     Quantity |-> quantity, Price |-> price]

\* df.sort_values('Date'): the rows by Date ascending; the default sort is
\* not stable, rows of one date come in any order
SortedByDate(rows) ==
    {[k \in DOMAIN rows |-> rows[p[k]]] :
        p \in {q \in Perms(Len(rows)) :
                 \A k, l \in DOMAIN rows :
                    k < l => rows[q[k]].Date <= rows[q[l]].Date}}

\* a dict after d[key] = value
Store(d, key, value) ==
    [t \in DOMAIN d \cup {key} |-> IF t = key THEN value ELSE d[t]]

\* a dict after "if key not in d: d[key] = 0"
WithKey(d, key) == IF key \in DOMAIN d THEN d ELSE Store(d, key, 0)

EmptyDict == [t \in {} |-> 0]

\* what is left of the invested value when the sale proceeds are taken off
InvestedAfterSellAtSalePrice(invested, quantity, held, price) ==
    Plus(invested, Scalar(-(quantity * price), 1))

\* sell_ratio = Quantity / portfolio[ticker];
\* invested_value[ticker] -= invested_value[ticker] * sell_ratio
InvestedAfterSell(invested, quantity, held, price) ==
    Scalar(invested.num * (held - quantity), invested.den * held)

LedgerInit ==
    /\ collection = <<>>
    /\ ledger_df = <<>>
    /\ portfolio = EmptyDict
    /\ invested_value = EmptyDict
    /\ sell_ratio = NaN
    /\ ledger_i = 1
    /\ ledger_pc = "record"

LedgerReplayState == <<ledger_df, portfolio, invested_value, sell_ratio, ledger_i>>

\* portfolio_tracking, 'Compra': buy_stock -> log_transaction
buy_stock ==
    /\ ledger_pc = "record"
    /\ Len(collection) < MaxTransactions
    /\ \E date \in TransactionDates, ticker \in LedgerTickers,
          quantity \in Quantities, price \in TransactionPrices :
          collection' = Append(collection,
                           Transaction(date, ticker, "BUY", quantity, price))
    /\ UNCHANGED ledger_pc
    /\ UNCHANGED LedgerReplayState
    /\ UNCHANGED notLedger

\* portfolio_tracking, 'Venda': sell_stock -> log_transaction; the quantity
\* is not compared with anything
sell_stock ==
    /\ ledger_pc = "record"
    /\ Len(collection) < MaxTransactions
    /\ \E date \in TransactionDates, ticker \in LedgerTickers,
          quantity \in Quantities, price \in TransactionPrices :
          collection' = Append(collection,
                           Transaction(date, ticker, "SELL", quantity, price))
    /\ UNCHANGED ledger_pc
    /\ UNCHANGED LedgerReplayState
    /\ UNCHANGED notLedger

\* get_portfolio_performance up to the for loop: no transaction, return two
\* empty frames; else sort by Date and start with empty dicts
get_portfolio_performance_start ==
    /\ ledger_pc = "record"
    /\ IF collection = <<>>
       THEN /\ ledger_pc' = "done"
            /\ UNCHANGED ledger_df
       ELSE /\ ledger_pc' = "replay"
            /\ ledger_df' \in SortedByDate(collection)
    /\ UNCHANGED <<collection, portfolio, invested_value, sell_ratio, ledger_i>>
    /\ UNCHANGED notLedger

\* one iteration of "for _, row in df.iterrows()". A SELL of a ticker with
\* portfolio[ticker] == 0 divides by zero: ZeroDivisionError for Python
\* numbers, a ratio that is not finite (and an invested value of NaN) for
\* numpy numbers.
replay_iteration ==
    /\ ledger_pc = "replay"
    /\ LET row == ledger_df[ledger_i]
           ticker == row.Ticker
           held == WithKey(portfolio, ticker)[ticker]
           invested == IF ticker \in DOMAIN invested_value
                       THEN invested_value[ticker] ELSE Scalar(0, 1)
           last == ledger_i = Len(ledger_df)
       IN IF row.Action = "BUY"
          THEN /\ portfolio' = Store(portfolio, ticker, held + row.Quantity)
               /\ invested_value' =
                     Store(invested_value, ticker,
                           IF invested.nan THEN NaN
                           ELSE Plus(invested,
                                     Scalar(row.Quantity * row.Price, 1)))
               /\ ledger_pc' = IF last THEN "done" ELSE "replay"
               /\ ledger_i' = IF last THEN ledger_i ELSE ledger_i + 1
               /\ UNCHANGED sell_ratio
          ELSE IF held = 0
          THEN \/ /\ ledger_pc' = "exception"
                  /\ portfolio' = WithKey(portfolio, ticker)
                  /\ invested_value' = Store(invested_value, ticker, invested)
                  /\ UNCHANGED <<sell_ratio, ledger_i>>
               \/ /\ sell_ratio' = NaN
                  /\ portfolio' = Store(portfolio, ticker, held - row.Quantity)
                  /\ invested_value' = Store(invested_value, ticker, NaN)
                  /\ ledger_pc' = IF last THEN "done" ELSE "replay"
                  /\ ledger_i' = IF last THEN ledger_i ELSE ledger_i + 1
          ELSE /\ sell_ratio' = Scalar(row.Quantity, held)
               /\ portfolio' = Store(portfolio, ticker, held - row.Quantity)
               /\ invested_value' =
                     Store(invested_value, ticker,
                           IF invested.nan THEN NaN
                           ELSE InvestedAfterSell(invested, row.Quantity,
                                                  held, row.Price))
               /\ ledger_pc' = IF last THEN "done" ELSE "replay"
               /\ ledger_i' = IF last THEN ledger_i ELSE ledger_i + 1
    /\ UNCHANGED <<collection, ledger_df>>
    /\ UNCHANGED notLedger

LedgerNext ==
    \/ buy_stock
    \/ sell_stock
    \/ get_portfolio_performance_start
    \/ replay_iteration

LedgerIdle ==
    /\ collection = <<>>
    /\ ledger_df = <<>>
    /\ portfolio = EmptyDict
    /\ invested_value = EmptyDict
    /\ sell_ratio = NaN
    /\ ledger_i = 0
    /\ ledger_pc = "idle"

----------------------------------------------------------------------------
(* get_fundamental_data(ticker, max_retries=3) and                          *)
(* get_stock_data(tickers, years=5, max_retries=3)                          *)

Fetchers == {"data_handling.get_fundamental_data",
             "data_handling.get_stock_data",
             "portfolio_performance.get_stock_data",
             "app.get_stock_data"}

\* what an attempt (yf.Ticker(...).info, yf.download(...)[column]) can
\* raise: a connection error of requests, one of the operating system, a
\* missing column or key
AttemptErrors == {"requests.ConnectionError", "builtins.ConnectionError",
                  "KeyError"}

\* the except clause of each function: "except Exception" catches all,
\* "except ConnectionError" the class that the name denotes in its module
\* (portfolio_performance imports it from requests.exceptions, the other
\* modules use the builtin)
Catches(f, error) ==
    \/ f = "data_handling.get_fundamental_data"
    \/ f = "portfolio_performance.get_stock_data"
          /\ error = "requests.ConnectionError"
    \/ f \in {"data_handling.get_stock_data", "app.get_stock_data"}
          /\ error = "builtins.ConnectionError"

\* app.py calls time.sleep without importing time
TimeImported(f) == f # "app.get_stock_data"

\* 2 ** attempt
RECURSIVE Pow2(_)
Pow2(n) == IF n = 0 THEN 1 ELSE 2 * Pow2(n - 1)

\* the record with every field NaN, or pd.DataFrame()
Unavailable == [kind |-> "unavailable"]
Fetched == [kind |-> "data"]

FetchInit ==
    /\ fetcher \in Fetchers
    /\ max_retries \in 1..MaxRetries
    /\ attempt = 0
    /\ fetch_log = <<>>
    /\ sleeps = <<>>
    /\ fetch_ret = NoReturn
    /\ fetch_pc = "attempt"

\* one pass of the for loop: the try block returns the data, or raises and
\* the except clause sleeps and goes on, or returns the unavailable result
fetch_attempt ==
    /\ fetch_pc = "attempt"
    /\ \/ /\ fetch_ret' = Fetched
          /\ fetch_pc' = "done"
          /\ UNCHANGED <<attempt, fetch_log, sleeps>>
       \/ \E error \in AttemptErrors :
             /\ fetch_log' = Append(fetch_log, error)
             /\ IF ~Catches(fetcher, error)
                THEN /\ fetch_ret' = Raise(error)
                     /\ fetch_pc' = "done"
                     /\ UNCHANGED <<attempt, sleeps>>
                ELSE IF attempt < max_retries - 1
                THEN IF TimeImported(fetcher)
                     THEN /\ sleeps' = Append(sleeps, Pow2(attempt))
                          /\ attempt' = attempt + 1
                          /\ UNCHANGED <<fetch_ret, fetch_pc>>
                     ELSE /\ fetch_ret' = Raise("NameError")
                          /\ fetch_pc' = "done"
                          /\ UNCHANGED <<attempt, sleeps>>
                ELSE /\ fetch_ret' = Unavailable
                     /\ fetch_pc' = "done"
                     /\ UNCHANGED <<attempt, sleeps>>
    /\ UNCHANGED <<fetcher, max_retries>>
    /\ UNCHANGED notFetch

FetchNext == fetch_attempt

FetchIdle ==
    /\ fetcher = "none"
    /\ max_retries = 0
    /\ attempt = 0
    /\ fetch_log = <<>>
    /\ sleeps = <<>>
    /\ fetch_ret = NoReturn
    /\ fetch_pc = "idle"

----------------------------------------------------------------------------
(* data_handling.check_and_populate_historical_data and                     *)
(* data_handling.get_historical_prices                                      *)

HistoryTickers == {"A", "B"}
HistoryDates == 1..2

\* what yf.download and the insertion can do in one call: the download
\* raises, returns an empty frame, or returns rows that are inserted; or
\* insert_many raises after it has stored the first row
Downloads ==
    {[kind |-> "download_error", rows |-> <<>>],
     [kind |-> "empty", rows |-> <<>>],
     [kind |-> "rows", rows |-> <<1>>],
     [kind |-> "rows", rows |-> <<1, 2>>],
     [kind |-> "insert_error", rows |-> <<1, 2>>]}

\* find_one({'ticker': ticker}) with a filter that matches nothing
find_one_never(stored, ticker) == FALSE

\* existing_data = prices_collection.find_one({'ticker': ticker})
find_one(stored, ticker) == stored[ticker] # <<>>

\* check_and_populate_historical_data(ticker, prices_collection) when the
\* download behaves as `download`: the value returned, the collection
\* afterwards, and whether yf.download and insert_many were called
check_and_populate_historical_data(ticker, stored, download) ==
    IF find_one(stored, ticker)
    THEN [ret |-> TRUE, collection |-> stored,
          downloaded |-> FALSE, inserted |-> FALSE]
    ELSE IF download.kind \in {"download_error", "empty"}
    THEN [ret |-> FALSE, collection |-> stored,
          downloaded |-> TRUE, inserted |-> FALSE]
    ELSE IF download.kind = "insert_error"
    THEN [ret |-> FALSE,
          collection |-> [stored EXCEPT
                             ![ticker] = @ \o <<Head(download.rows)>>],
          downloaded |-> TRUE, inserted |-> TRUE]
    ELSE [ret |-> TRUE,
          collection |-> [stored EXCEPT ![ticker] = @ \o download.rows],
          downloaded |-> TRUE, inserted |-> TRUE]

\* prices_collection.find(query, ...): the records of the ticker with
\* start_date <= date <= end_date
find(stored, ticker, start_date, end_date) ==
    SelectSeq(stored[ticker], LAMBDA d : start_date <= d /\ d <= end_date)

\* df.sort_values('date')
RECURSIVE sort_values(_)
sort_values(dates) ==
    IF dates = <<>> THEN <<>>
    ELSE LET k == CHOOSE k \in DOMAIN dates :
                     \A j \in DOMAIN dates :
                        dates[k] < dates[j] \/ (dates[k] = dates[j] /\ k <= j)
         IN <<dates[k]>>
               \o sort_values([j \in 1..(Len(dates) - 1) |->
                                  IF j < k THEN dates[j] ELSE dates[j + 1]])

\* get_historical_prices(ticker, start_date, end_date, prices_collection)
get_historical_prices(ticker, start_date, end_date, stored, download) ==
    LET df == find(stored, ticker, start_date, end_date)
    IN IF df = <<>>
       THEN LET populate ==
                   check_and_populate_historical_data(ticker, stored, download)
                again == IF populate.ret
                         THEN find(populate.collection, ticker,
                                   start_date, end_date)
                         ELSE df
            IN [df |-> sort_values(again),
                is_populating |-> again = <<>>,
                collection |-> populate.collection,
                downloaded |-> populate.downloaded,
                inserted |-> populate.inserted]
       ELSE [df |-> sort_values(df), is_populating |-> FALSE,
             collection |-> stored,
             downloaded |-> FALSE, inserted |-> FALSE]

NoCall == [function |-> "none"]

HistoryInit ==
    /\ prices_collection = [t \in HistoryTickers |-> <<>>]
    /\ history_calls = 0
    /\ last_call = NoCall
    /\ history_pc = "serve"

check_and_populate_historical_data_call ==
    /\ history_pc = "serve"
    /\ history_calls < MaxHistoryCalls
    /\ \E ticker \in HistoryTickers, download \in Downloads :
          LET out == check_and_populate_historical_data(ticker,
                         prices_collection, download)
          IN /\ prices_collection' = out.collection
             /\ last_call' = [function |-> "check_and_populate_historical_data",
                              ticker |-> ticker, ret |-> out.ret,
                              downloaded |-> out.downloaded,
                              inserted |-> out.inserted]
    /\ history_calls' = history_calls + 1
    /\ UNCHANGED history_pc
    /\ UNCHANGED notHistory

get_historical_prices_call ==
    /\ history_pc = "serve"
    /\ history_calls < MaxHistoryCalls
    /\ \E ticker \in HistoryTickers, start_date, end_date \in HistoryDates,
          download \in Downloads :
          LET out == get_historical_prices(ticker, start_date, end_date,
                                           prices_collection, download)
          IN /\ prices_collection' = out.collection
             /\ last_call' = [function |-> "get_historical_prices",
                              ticker |-> ticker, df |-> out.df,
                              is_populating |-> out.is_populating,
                              downloaded |-> out.downloaded,
                              inserted |-> out.inserted]
    /\ history_calls' = history_calls + 1
    /\ UNCHANGED history_pc
    /\ UNCHANGED notHistory

HistoryNext ==
    \/ check_and_populate_historical_data_call
    \/ get_historical_prices_call

HistoryIdle ==
    /\ prices_collection = <<>>
    /\ history_calls = 0
    /\ last_call = NoCall
    /\ history_pc = "idle"

----------------------------------------------------------------------------
(* calculate_optimal_contribution: the loop that gives every asset its      *)
(* initial contribution and the loop that distributes the rest              *)

\* max(1, int(amount / price)) with amount = weight * contribution_amount
ContributionShares(weight, amount, price) ==
    LET shares == PyInt(weight.num * amount, weight.den * price)
    IN IF shares > 1 THEN shares ELSE 1

\* a distribution that never looks at the remaining amount
DistributionFitsAlways(price, remaining) == TRUE

\* if price <= remaining_amount
DistributionFits(price, remaining) == price <= remaining

\* min(current_prices.values())
MinPrice(p) == CHOOSE m \in Range(p) : \A q \in Range(p) : m <= q

ContributionInit ==
    /\ \E n \in 1..MaxAssets :
          /\ current_prices \in [1..n -> 1..MaxPrice]
          /\ contribution_weights \in
                {NaNVector(n)}
                   \cup {[nan |-> FALSE, num |-> w, den |-> 10] :
                            w \in [1..n -> WeightNumerators]}
    /\ contribution_amount \in 1..MaxBudget
    /\ final_contribution = <<>>
    /\ remaining_amount = contribution_amount
    /\ contribution_i = 1
    /\ contribution_pc = "first"

ContributionInputs ==
    <<contribution_amount, current_prices, contribution_weights>>

\* one iteration of "for ticker, amount in zip(tickers,
\* initial_contribution)"; int() of a NaN amount raises ValueError
contribution_first_loop ==
    /\ contribution_pc = "first"
    /\ IF contribution_weights.nan
       THEN /\ contribution_pc' = "exception"
            /\ UNCHANGED <<final_contribution, remaining_amount, contribution_i>>
       ELSE LET price == current_prices[contribution_i]
                weight == [num |-> contribution_weights.num[contribution_i],
                           den |-> contribution_weights.den]
                shares == ContributionShares(weight, contribution_amount, price)
                allocated_amount == shares * price
            IN IF allocated_amount <= remaining_amount
               THEN /\ final_contribution' =
                          Append(final_contribution, allocated_amount)
                    /\ remaining_amount' = remaining_amount - allocated_amount
                    /\ IF contribution_i = Len(current_prices)
                       THEN /\ contribution_pc' = "while"
                            /\ contribution_i' = 1
                       ELSE /\ contribution_pc' = "first"
                            /\ contribution_i' = contribution_i + 1
               ELSE /\ contribution_pc' = "while"
                    /\ contribution_i' = 1
                    /\ UNCHANGED <<final_contribution, remaining_amount>>
    /\ UNCHANGED ContributionInputs
    /\ UNCHANGED notContribution

\* "while remaining_amount > 0:" and the start of its for loop; a for loop
\* over no key runs its else clause, which leaves the while loop
contribution_while_test ==
    /\ contribution_pc = "while"
    /\ contribution_pc' =
          IF remaining_amount > 0 /\ final_contribution # <<>>
          THEN "for" ELSE "done"
    /\ contribution_i' = 1
    /\ UNCHANGED <<final_contribution, remaining_amount>>
    /\ UNCHANGED ContributionInputs
    /\ UNCHANGED notContribution

\* one iteration of "for ticker in final_contribution.keys()": the inner
\* break goes back to the while test, the end of the for loop to its else
\* clause and out of the while loop
contribution_for_iteration ==
    /\ contribution_pc = "for"
    /\ LET price == current_prices[contribution_i]
           fits == DistributionFits(price, remaining_amount)
           left == IF fits THEN remaining_amount - price ELSE remaining_amount
       IN /\ remaining_amount' = left
          /\ final_contribution' =
                IF fits
                THEN [final_contribution EXCEPT ![contribution_i] = @ + price]
                ELSE final_contribution
          /\ IF fits /\ left < MinPrice(current_prices)
             THEN /\ contribution_pc' = "while"
                  /\ contribution_i' = 1
             ELSE IF contribution_i = Len(final_contribution)
             THEN /\ contribution_pc' = "done"
                  /\ contribution_i' = 1
             ELSE /\ contribution_pc' = "for"
                  /\ contribution_i' = contribution_i + 1
    /\ UNCHANGED ContributionInputs
    /\ UNCHANGED notContribution

ContributionNext ==
    \/ contribution_first_loop
    \/ contribution_while_test
    \/ contribution_for_iteration

ContributionIdle ==
    /\ contribution_amount = 0
    /\ current_prices = <<>>
    /\ contribution_weights = None
    /\ final_contribution = <<>>
    /\ remaining_amount = 0
    /\ contribution_i = 0
    /\ contribution_pc = "idle"

----------------------------------------------------------------------------
(* Specifications                                                           *)

Idle(component) ==
    /\ component = "alloc" \/ AllocIdle
    /\ component \in {"optimizer", "multi_factor"} \/ OptIdle
    /\ component = "multi_factor" \/ MultiFactorIdle
    /\ component = "calibration" \/ CalibIdle
    /\ component = "main" \/ MainIdle
    /\ component = "anomaly" \/ AnomalyIdle
    /\ component = "returns" \/ ReturnsIdle
    /\ component = "screen" \/ ScreenIdle
    /\ component = "adjust" \/ AdjustIdle
    /\ component = "rank" \/ RankIdle
    /\ component = "rate" \/ RateIdle
    /\ component = "recalibration" \/ RecalIdle
    /\ component = "score" \/ ScoreIdle
    /\ component = "flow" \/ FlowIdle
    /\ component = "rate_flow" \/ RateFlowIdle
    /\ component = "ledger" \/ LedgerIdle
    /\ component = "fetch" \/ FetchIdle
    /\ component = "history" \/ HistoryIdle
    /\ component = "contribution" \/ ContributionIdle

InitAlloc == AllocInit /\ Idle("alloc")

SpecAlloc == InitAlloc /\ [][AllocNext]_vars

InitOptimizer == OptInit /\ Idle("optimizer")

SpecOptimizer == InitOptimizer /\ [][OptNext]_vars

InitMultiFactor == MultiFactorInit /\ Idle("multi_factor")

SpecMultiFactor == InitMultiFactor /\ [][MultiFactorNext]_vars

InitCalibration == CalibInit /\ Idle("calibration")

SpecCalibration == InitCalibration /\ [][CalibNext]_vars

InitMain == MainInit /\ Idle("main")

SpecMain == InitMain /\ [][MainNext]_vars

InitAnomaly == AnomalyInit /\ Idle("anomaly")

SpecAnomaly == InitAnomaly /\ [][AnomalyNext]_vars

InitReturns == ReturnsInit /\ Idle("returns")

SpecReturns == InitReturns /\ [][ReturnsNext]_vars

InitScreen == ScreenInit /\ Idle("screen")

SpecScreen == InitScreen /\ [][ScreenNext]_vars

InitAdjust == AdjustInit /\ Idle("adjust")

SpecAdjust == InitAdjust /\ [][AdjustNext]_vars

InitRank == RankInit /\ Idle("rank")

SpecRank == InitRank /\ [][RankNext]_vars

InitRate == RateInit /\ Idle("rate")

SpecRate == InitRate /\ [][RateNext]_vars

InitRecalibration == RecalInit /\ Idle("recalibration")

SpecRecalibration == InitRecalibration /\ [][RecalNext]_vars

InitScore == ScoreInit /\ Idle("score")

SpecScore == InitScore /\ [][ScoreNext]_vars

InitFlow == FlowInit /\ Idle("flow")

SpecFlow == InitFlow /\ [][FlowNext]_vars

InitRateFlow == RateFlowInit /\ Idle("rate_flow")

SpecRateFlow == InitRateFlow /\ [][RateFlowNext]_vars

InitLedger == LedgerInit /\ Idle("ledger")

SpecLedger == InitLedger /\ [][LedgerNext]_vars

InitFetch == FetchInit /\ Idle("fetch")

SpecFetch == InitFetch /\ [][FetchNext]_vars

InitHistory == HistoryInit /\ Idle("history")

SpecHistory == InitHistory /\ [][HistoryNext]_vars

InitContribution == ContributionInit /\ Idle("contribution")

SpecContribution == InitContribution /\ [][ContributionNext]_vars

\* the function runs on: each loop takes its next step
SpecContributionLive == SpecContribution /\ WF_vars(ContributionNext)

\* total spend of the allocation: sum(shares[t] * price[t])
Spend == SumOver([t \in DOMAIN allocation |-> allocation[t] * prices[t]],
                 DOMAIN allocation)

----------------------------------------------------------------------------
(* Properties of allocate_portfolio_integer_shares                          *)

\* C1: the allocator never overspends. After every step of the first and of
\* the second pass remaining_value >= 0 and remaining_value equals
\* invest_value - sum(shares[t] * price[t]); hence the returned allocation
\* has sum(shares * price) <= invest_value.
NeverOverspends ==
    alloc_pc \in {"first", "second", "done"} =>
        /\ remaining_value >= 0
        /\ remaining_value = invest_value - Spend
        /\ Spend <= invest_value

\* the first pass refused an asset whose target shares did not fit any more,
\* and the function has returned
OverspendRefused ==
    /\ alloc_pc = "done"
    /\ \E k \in DOMAIN sorted_assets :
          LET price == prices[sorted_assets[k][2]]
              shares == TargetShares(invest_value, sorted_assets[k][1], price)
          IN shares > 0 /\ allocation[sorted_assets[k][2]] < shares

\* C2: when the allocator returns, every asset that ended with 0 shares
\* (absent from the allocation) has a price strictly greater than the
\* returned remaining cash.
NoFurtherShareAffordable ==
    alloc_pc = "done" =>
        \A t \in DOMAIN allocation :
            allocation[t] = 0 => prices[t] > remaining_value

\* the function returned with an asset left out and cash left over
AssetLeftOutWithCash ==
    /\ alloc_pc = "done"
    /\ remaining_value > 0
    /\ \E t \in DOMAIN allocation : allocation[t] = 0
    /\ \E t \in DOMAIN allocation : allocation[t] > 0

InAllocScenario ==
    /\ invest_value = AllocScenario.invest_value
    /\ prices_index = AllocScenario.prices_index
    /\ prices = AllocScenario.prices
    /\ weights = AllocScenario.weights

\* C3: budget 10000, prices 3000 and 4000, weights [0.6, 0.4]: the allocator
\* returns shares [2, 1], total spend 10000 and remaining cash 0.
ScenarioAllocation ==
    (InAllocScenario /\ alloc_pc = "done") =>
        /\ allocation = <<2, 1>>
        /\ Spend = 10000
        /\ remaining_value = 0

ScenarioReturned == InAllocScenario /\ alloc_pc = "done"

----------------------------------------------------------------------------
(* Properties of the optimizers                                             *)

OptimizerModes == {"max_sharpe", "risk_parity", "contribution"}

\* C4: every weight vector returned by any of the optimizers sums to 1 and
\* has every component within its bounds (0, 1), whatever the outcome of the
\* solver.
ReturnedWeightsFeasible ==
    (opt_pc = "done" /\ opt_mode \in OptimizerModes /\ opt_ret.kind = "weights")
        => IsFeasible(opt_ret.x)

\* C5: when the solver does not converge, the caller is told: the optimizer
\* does not hand back a bare weight vector as if the solve had succeeded.
NonConvergenceReported ==
    (opt_pc = "done" /\ opt_mode \in OptimizerModes /\ ~opt_result.success)
        => opt_ret.kind # "weights"

\* every column of the panel is constant over at least 2 periods: whatever
\* the weights, the portfolio volatility is zero
ZeroVolatilityUniverse ==
    /\ Len(returns) >= 2
    /\ \A i \in 1..num_assets : CovNum(returns, i, i) = 0

\* C7: maximum-Sharpe optimization on a universe whose portfolio volatility
\* is zero ends with DegenerateVarianceError.
ZeroVolatilityRaises ==
    (opt_pc = "done" /\ opt_mode = "max_sharpe" /\ ZeroVolatilityUniverse)
        => opt_ret = Raise("DegenerateVarianceError")

\* C8: portfolio_performance on a return matrix with fewer than 2 rows fails
\* with InsufficientDataError.
ShortPanelRaises ==
    (opt_pc = "done" /\ opt_mode = "performance" /\ Len(returns) < 2)
        => opt_ret = Raise("InsufficientDataError")

----------------------------------------------------------------------------
(* Properties of the sector and style bands                                 *)

\* the entry of sector_constraints or style_constraints with this key
ConfiguredBand(owner) ==
    LET all == sector_constraints \o style_constraints
    IN all[CHOOSE k \in DOMAIN all : all[k].key = owner]

\* C6: each sector or style band constraint is evaluated with its own
\* configured (min_weight, max_weight) and its own asset subset, not with
\* those of another loop iteration.
BandsUseOwnBounds ==
    mf_pc = "done" =>
        \A k \in DOMAIN evaluated :
            LET e == evaluated[k]
                band == ConfiguredBand(e.owner)
            IN /\ e.bound = IF e.kind = "min" THEN band.lo ELSE band.hi
               /\ e.assets = IF e.owner \in Sectors THEN SectorAssets(e.owner)
                             ELSE StyleAssets(e.owner)

----------------------------------------------------------------------------
(* Properties of the calibration and of the anomaly loop                    *)

\* the correlation of the objective is undefined at the initial weights:
\* fewer than 2 assets, a constant score or return column, or a missing
\* cumulative return
DegenerateCalibration ==
    corrcoef(ativos_df, EqualWeights(NumFactors)) = "nan"

\* C9: when the calibration is degenerate, the run goes on and the factor
\* weights used for scoring are the equal weights, 1/7 each.
DegenerateCalibrationFallsBack ==
    (calib_pc \in {"scored", "exception"} /\ DegenerateCalibration)
        => /\ calib_pc = "scored"
           /\ scoring_weights = EqualWeights(NumFactors)

\* C10: a price series too short to fit the residual model gets the
\* anomaly value 0, and a fit failure on one asset never ends the run: main
\* never stops on an exception of the anomaly loop, and the ticker of a
\* series without returns has the value 0 stored.
FitFailureIsContained ==
    /\ main_pc # "exception"
    /\ (main_i > 1 /\ ReturnsLength(series_length) = 0)
           => price_anomaly[main_i - 1] = 0

----------------------------------------------------------------------------
(* Properties of the anomaly rates                                          *)

\* at least two prices, all equal
ConstantSeries ==
    /\ Len(stock_series) >= 2
    /\ \A t \in DOMAIN stock_series : stock_series[t] = stock_series[1]

\* C11: on a constant price series both anomaly fractions are 0: the ticker
\* is handled without an exception, detect_price_flags flags no period
\* and the RSI is in neither zone in any period.
ConstantSeriesHasNoAnomaly ==
    (ConstantSeries /\ anomaly_pc \in {"stored", "exception"})
        => /\ anomaly_pc = "stored"
           /\ Mean(price_flags).num = 0
           /\ rsi_anomaly.num = 0
           /\ rsi_anomalies.num = 0

\* C20: both anomaly rates of a ticker lie in [0, 1]; the oscillator rate
\* stored as (rsi > 70).mean() + (rsi < 30).mean() never exceeds 1 and equals
\* ((rsi > 70) | (rsi < 30)).mean() of the same series.
AnomalyRatesAreFractions ==
    anomaly_pc = "stored" =>
        /\ 0 <= Mean(price_flags).num
        /\ Mean(price_flags).num <= Mean(price_flags).den
        /\ 0 <= rsi_anomaly.num
        /\ rsi_anomaly.num <= rsi_anomaly.den
        /\ rsi_anomaly = rsi_anomalies

\* a stored series with a period in the overbought and one in the oversold
\* zone
BothZonesSeen ==
    /\ anomaly_pc = "stored"
    /\ \E t \in DOMAIN rsi : IsOverbought(rsi[t])
    /\ \E t \in DOMAIN rsi : IsOversold(rsi[t])

----------------------------------------------------------------------------
(* Properties of calculate_returns                                          *)

\* C12: calculate_returns on an empty price panel returns an empty returns
\* panel and raises no error.
EmptyPanelGivesEmptyReturns ==
    (returns_pc = "done" /\ IsEmpty(price_panel, panel_columns))
        => /\ returns_frame.kind = "frame"
           /\ returns_frame.rows = <<>>

\* the call on a panel without rows or without columns has returned
EmptyPanelReturned ==
    /\ returns_pc = "done"
    /\ IsEmpty(price_panel, panel_columns)
    /\ panel_columns > 0

\* the return of asset i at row t is defined by the prices themselves: both
\* quotes are there and the earlier one is not 0
ReturnDefined(t, i) ==
    /\ t > 1
    /\ ~price_panel[t][i].nan
    /\ ~price_panel[t - 1][i].nan
    /\ price_panel[t - 1][i].num # 0

\* C13: in the panel returned by calculate_returns every cell is finite, a
\* date is kept for all assets or for none, and no return that was infinite
\* or undefined in the input appears as 0 in the output.
ReturnsFiniteAlignedNotZeroFilled ==
    (returns_pc = "done" /\ returns_frame.kind = "frame") =>
        \A k \in DOMAIN returns_frame.rows :
            /\ Len(returns_frame.rows[k]) = returns_frame.columns
            /\ \A i \in 1..returns_frame.columns :
                  /\ returns_frame.rows[k][i].kind = "finite"
                  /\ returns_frame.rows[k][i].num = 0
                        => ReturnDefined(returns_frame.index[k], i)

----------------------------------------------------------------------------
(* Properties of the asset filter                                           *)

\* C14: every asset record that reaches scoring has all ten score fields
\* present and finite; a record with a missing or non-finite field is
\* excluded (and none is replaced by zero: the kept records are records of
\* the merged table).
ScoredRecordsAreFinite ==
    screen_pc = "score" =>
        \A k \in DOMAIN screened_df :
            /\ \A f \in ScoreFields : screened_df[k][f] = "finite"
            /\ \E j \in DOMAIN fundamental_df : fundamental_df[j] = screened_df[k]

----------------------------------------------------------------------------
(* Properties of adjust_weights_for_anomalies                               *)

\* C15: for weights that are non-negative and sum to 1 and anomaly scores in
\* [0, 1], adjust_weights_for_anomalies returns a vector with every
\* component in [0, 1] that sums to 1, also when every asset with positive
\* weight has anomaly score 1.
AdjustedWeightsFeasible ==
    adjust_pc = "done" => IsFeasible(adjusted_weights)

----------------------------------------------------------------------------
(* Properties of the order of allocate_portfolio_integer_shares             *)

\* where ticker t stands in the input, prices.index
InputPosition(t) == CHOOSE j \in DOMAIN prices_index : prices_index[j] = t

\* C16: both passes process the assets by weight descending, and assets with
\* equal weight in the order in which they appear in the input.
StableWeightOrder ==
    alloc_pc \in {"first", "second", "done"} =>
        \A k, l \in DOMAIN sorted_assets :
            k < l =>
                LET a == sorted_assets[k]
                    b == sorted_assets[l]
                IN \/ a[1].num * b[1].den > b[1].num * a[1].den
                   \/ /\ a[1].num * b[1].den = b[1].num * a[1].den
                      /\ InputPosition(a[2]) < InputPosition(b[2])

----------------------------------------------------------------------------
(* Properties of the final ranking                                          *)

\* row a is ranked ahead of row b: higher adjusted score, or the same
\* adjusted score and an unadjusted score at least as high
RankedAhead(a, b) ==
    \/ scored_df[a].Adjusted_Score > scored_df[b].Adjusted_Score
    \/ /\ scored_df[a].Adjusted_Score = scored_df[b].Adjusted_Score
       /\ scored_df[a].Score >= scored_df[b].Score

\* C17: the ranking selects the 10 assets with the highest adjusted score;
\* of two assets with equal adjusted score the one with the higher
\* unadjusted score is ranked first and is the one kept at the cut-off.
TopTenTiesByScore ==
    rank_pc = "ranked" =>
        /\ Len(top_ativos) = TopN
        /\ \A k, l \in DOMAIN top_ativos :
              k < l => RankedAhead(top_ativos[k], top_ativos[l])
        /\ \A k \in DOMAIN top_ativos :
              \A r \in DOMAIN scored_df \ Range(top_ativos) :
                 RankedAhead(top_ativos[k], r)

----------------------------------------------------------------------------
(* Properties of the risk-free rate                                         *)

\* C18: the risk-free rate is an explicit parameter: what a function that
\* uses it returns depends on its arguments only, so two calls with the
\* same arguments give the same Sharpe value whatever ran in between.
SharpeDependsOnArgumentsOnly ==
    \A k, l \in DOMAIN sharpe_calls :
        /\ sharpe_calls[k].p_return = sharpe_calls[l].p_return
        /\ sharpe_calls[k].p_volatility = sharpe_calls[l].p_volatility
        => sharpe_calls[k].outcome = sharpe_calls[l].outcome

----------------------------------------------------------------------------
(* Properties of repeated calibration                                       *)

----------------------------------------------------------------------------
(* Properties of the adjusted score                                         *)

\* both anomaly columns of the row are fractions in [0, 1]
AnomalyRatesInUnitInterval(row) ==
    /\ row.price_anomaly.num <= row.price_anomaly.den
    /\ row.rsi_anomaly.num <= row.rsi_anomaly.den

\* C21: the penalty factor is never negative, so the adjusted score has the
\* sign of the score before the penalty (or is 0), and for anomaly rates in
\* [0, 1] the factor lies in [0.9, 1].
PenaltyFactorNeverNegative ==
    score_pc = "done" =>
        /\ penalty_factor.num >= 0
        /\ final_score.num * adjusted_base_score.num >= 0
        /\ AnomalyRatesInUnitInterval(score_row) =>
              /\ 10 * penalty_factor.num >= 9 * penalty_factor.den
              /\ penalty_factor.num <= penalty_factor.den

----------------------------------------------------------------------------
(* The second pass against the procedure that buys one share at a time      *)

\* the first asset, in the order of sorted_assets, whose price fits in rem;
\* 0 when none fits
FirstFitting(rem) ==
    LET fits == {k \in DOMAIN sorted_assets : prices[sorted_assets[k][2]] <= rem}
    IN IF fits = {} THEN 0
       ELSE CHOOSE k \in fits : \A j \in fits : k <= j

\* scan the assets in order, add one share to the first one whose price
\* fits, and start again, until no price fits
RECURSIVE Rescan(_, _)
Rescan(alloc, rem) ==
    LET k == FirstFitting(rem)
    IN IF k = 0 THEN [allocation |-> alloc, remaining_value |-> rem]
       ELSE LET ticker == sorted_assets[k][2]
            IN Rescan([alloc EXCEPT ![ticker] = @ + 1], rem - prices[ticker])

\* C22: the single scan of the second pass ends with the share counts and
\* the remaining cash of the rescanning procedure run on the result of the
\* first pass: no iteration of the scan changes what the procedure would
\* reach, and at the return the procedure has nothing left to add.
SecondPassEqualsRescan ==
    /\ [][alloc_pc = "second" =>
            Rescan(allocation', remaining_value')
               = Rescan(allocation, remaining_value)]_vars
    /\ [](alloc_pc = "done" =>
            Rescan(allocation, remaining_value)
               = [allocation |-> allocation, remaining_value |-> remaining_value])

\* the function has returned, and its second pass gave one asset at least
\* two shares beyond what the first pass can have given it
SecondPassAddedShares ==
    /\ alloc_pc = "done"
    /\ \E k \in DOMAIN sorted_assets :
          LET ticker == sorted_assets[k][2]
          IN allocation[ticker]
                >= TargetShares(invest_value, sorted_assets[k][1], prices[ticker]) + 2

----------------------------------------------------------------------------
(* The multi-factor optimizer without current weights                       *)

\* the solve step has run with current_weights None, on frames indexed by
\* position
SolvedWithoutCurrentWeights ==
    /\ mf_pc = "done"
    /\ cov_matrix # "unset"
    /\ asset_index = "positions"
    /\ opt_args = None

\* C23: with current_weights None the multi-factor optimize_portfolio
\* evaluates its objective, turnover cost included, without error and
\* returns a weight vector.
NoCurrentWeightsStillReturns ==
    SolvedWithoutCurrentWeights => opt_ret.kind = "weights"

----------------------------------------------------------------------------
(* Properties of the call of optimize_portfolio in main                     *)

\* C24: with a non-empty returns panel the call optimize_portfolio(returns,
\* risk_free_rate) runs the two-argument optimizer and the flow goes on to
\* the allocation: it does not end in the error branch because the call
\* does not fit the definition bound to the name.
CallReachesMaxSharpeOptimizer ==
    /\ flow_pc \in {"optimize", "allocate", "optimization_error"} =>
          bound_optimize_portfolio = "max_sharpe"
    /\ flow_pc = "optimization_error" =>
          flow_error \notin {"TypeError", "NameError"}

----------------------------------------------------------------------------
(* Properties of the risk-free rate in the main flows                       *)

\* C25: in both applications the module-level risk_free_rate is assigned
\* before generate_random_portfolios or plot_efficient_frontier reads it.
RateAssignedBeforeRead ==
    /\ rate_flow_pc = "plot" => module_risk_free_rate # Unbound
    /\ rate_flow_pc = "done" => plot_outcome.kind # "error"

----------------------------------------------------------------------------
(* Properties of the transaction replay                                     *)

\* C26: whatever was recorded through buy_stock and sell_stock, the replay
\* never sells more than is held: it does not fail, the latest sell_ratio
\* is defined and in [0, 1], and no held quantity is negative.
SellsNeverExceedHoldings ==
    ledger_pc \in {"replay", "done", "exception"} =>
        /\ ledger_pc # "exception"
        /\ \A t \in DOMAIN portfolio : portfolio[t] >= 0
        /\ \/ sell_ratio = NaN /\ \A t \in DOMAIN invested_value :
                                     ~invested_value[t].nan
           \/ /\ ~sell_ratio.nan
              /\ sell_ratio.num >= 0
              /\ sell_ratio.num <= sell_ratio.den

\* the rows of ledger_df replayed so far
Replayed ==
    IF ledger_pc = "done" THEN Len(ledger_df)
    ELSE IF ledger_pc \in {"replay", "exception"} THEN ledger_i - 1
    ELSE 0

\* the quantity of ticker t held after the first n rows of ledger_df
RECURSIVE HeldAfter(_, _)
HeldAfter(n, t) ==
    IF n = 0 THEN 0
    ELSE HeldAfter(n - 1, t)
            + (IF ledger_df[n].Ticker # t THEN 0
               ELSE IF ledger_df[n].Action = "BUY" THEN ledger_df[n].Quantity
               ELSE -ledger_df[n].Quantity)

\* row k of ledger_df is a BUY, or a SELL of at most the quantity then held
RowWithinHoldings(k) ==
    ledger_df[k].Action = "SELL" => ledger_df[k].Quantity <= HeldAfter(k - 1, ledger_df[k].Ticker)

\* C27: after a replay in which each SELL was at most the quantity held,
\* invested_value is non-negative for every ticker and 0 for a ticker of
\* which nothing is held, and a SELL step reduces it by the fraction of the
\* holding that was sold.
InvestedValueFollowsHoldings ==
    /\ []((\A k \in 1..Replayed : RowWithinHoldings(k)) =>
            \A t \in DOMAIN invested_value :
               /\ ~invested_value[t].nan
               /\ invested_value[t].num >= 0
               /\ portfolio[t] = 0 => invested_value[t].num = 0)
    /\ [][(/\ ledger_pc = "replay"
           /\ ledger_df[ledger_i].Action = "SELL"
           /\ \A k \in 1..ledger_i : RowWithinHoldings(k))
          => LET t == ledger_df[ledger_i].Ticker
                 before == invested_value[t]
                 after == invested_value'[t]
             IN after.num * before.den * portfolio[t]
                   = before.num * after.den * (portfolio[t] - ledger_df[ledger_i].Quantity)]_vars

\* a replay within the holdings has sold a part of a holding
SoldPartOfHolding ==
    /\ ledger_pc = "done"
    /\ Len(ledger_df) = 2
    /\ \A k \in 1..Len(ledger_df) : RowWithinHoldings(k)
    /\ ledger_df[2].Action = "SELL"
    /\ portfolio[ledger_df[2].Ticker] > 0
    /\ ledger_df[1].Price # ledger_df[2].Price

----------------------------------------------------------------------------
(* Properties of the retrying fetchers                                      *)

\* C28: a fetcher makes at most max_retries attempts, sleeps 2^attempt
\* seconds after each failed attempt but the last, returns the unavailable
\* result after max_retries failures instead of raising, and returns the
\* data at once when an attempt succeeds.
RetriesThenUnavailable ==
    /\ Len(fetch_log) <= max_retries
    /\ fetch_pc = "attempt" =>
          /\ Len(fetch_log) = attempt
          /\ sleeps = [k \in 1..attempt |-> Pow2(k - 1)]
    /\ fetch_pc = "done" =>
          /\ fetch_ret.kind \in {"data", "unavailable"}
          /\ fetch_ret.kind = "unavailable" <=> Len(fetch_log) = max_retries
          /\ Len(sleeps) = IF fetch_ret.kind = "data" THEN Len(fetch_log)
                           ELSE Len(fetch_log) - 1

----------------------------------------------------------------------------
(* Properties of the historical prices collection                           *)

\* C29: get_historical_prices returns is_populating = False exactly when
\* the frame it returns is non-empty; a call for a ticker that already has
\* a record downloads nothing, inserts nothing and (for
\* check_and_populate_historical_data) returns True; so no record of a
\* ticker is ever inserted twice.
HistoryInsertedOnce ==
    /\ [](/\ last_call.function = "get_historical_prices" =>
               (last_call.is_populating <=> last_call.df = <<>>)
          /\ \A t \in DOMAIN prices_collection :
                \A k, l \in DOMAIN prices_collection[t] :
                   k # l => prices_collection[t][k] # prices_collection[t][l])
    /\ [][\A t \in HistoryTickers :
             (/\ history_pc = "serve"
              /\ prices_collection[t] # <<>>
              /\ last_call'.ticker = t)
             => /\ prices_collection' = prices_collection
                /\ ~last_call'.downloaded
                /\ ~last_call'.inserted
                /\ last_call'.function = "check_and_populate_historical_data"
                      => last_call'.ret]_vars

\* a second call for a ticker whose history is stored was served from the
\* collection
ServedFromCollection ==
    /\ history_calls >= 2
    /\ last_call.function = "get_historical_prices"
    /\ ~last_call.downloaded
    /\ last_call.df = <<1, 2>>

----------------------------------------------------------------------------
(* Properties of the contribution loops                                     *)

\* C30: the distribution step of calculate_optimal_contribution always
\* terminates, also when the first loop funded no asset, and at the return
\* the contributions sum to at most contribution_amount.
DistributionTerminatesWithinAmount ==
    /\ <>(contribution_pc \in {"done", "exception"})
    /\ [](contribution_pc = "done" =>
            /\ SumSeq(final_contribution) <= contribution_amount
            /\ remaining_amount >= 0)

\* the function has returned and its first loop funded no asset
ReturnedWithNothingFunded ==
    /\ contribution_pc = "done"
    /\ final_contribution = <<>>
    /\ remaining_amount > 0

====
